---- MODULE Spec2Model ----
(***************************************************************************)
(* Storefront client: product cache, request client (webhook variant and   *)
(* direct/proxy variant), CartPage in-flight request guard and the         *)
(* Checkout state machines (three-step and single-form).                   *)
(*                                                                         *)
(* The module holds several specifications over one set of variables; a    *)
(* specification leaves the variables of the other parts at their initial  *)
(* values.                                                                 *)
(*   SpecCache    fetchProducts / fetchProductDetail and the product cache  *)
(*   SpecChannel  one request-client operation, proxy then direct channel  *)
(*   SpecCart     CartPage / Cart loads, cartPromises, cart_id cookie      *)
(*   SpecCheckout the two Checkout components                              *)
(*   SpecCheckoutFair  the same, with a user and an upstream that go on    *)
(*   SpecIdentity overlapping addToCart and getCartItems calls, the cookie *)
(*   SpecHome     HomePage mounts, productsPromise and its reset timers    *)
(*   SpecAddress  the address form of the Checkout                         *)
(***************************************************************************)
EXTENDS Integers, Sequences, FiniteSets, TLC

VARIABLES
    variant,            \* "webhook" (part_004) or "direct" (services/api.ts)
    dev,                \* import.meta.env.DEV
    cookie,             \* the cart_id cookie; "" when absent
    now,                \* Date.now(), in milliseconds
    productCache,       \* Map<string, {product, timestamp}>
    productsListCache,  \* {products, timestamp} | null (webhook variant)
    calls,              \* product requests in flight
    ticks,              \* clock advances so far (bounded)
    ncalls,             \* requests issued so far (bounded)
    ev,                 \* what the last step of the request client did
    tracked,            \* one fetchProducts success followed by the checks
    chan,               \* one operation of the direct/proxy client under way
    clock,              \* the time base of setTimeout, in milliseconds
    cartPromises,       \* Map<string, Promise>: the request stored per cart id
    requests,           \* getCartItems requests with the loads awaiting them
    timers,             \* pending setTimeout callbacks, in firing order
    page,               \* the state of the CartPage instance on screen
    cartCount,          \* requests issued so far (bounded), last settlement
    cartEv,             \* what the last step of the cart page did
    checkout,           \* the state of the Checkout component
    coReq,              \* the request the running Checkout handler awaits
    coEv,               \* what the last step of the Checkout did
    ident,              \* addToCart and getCartItems calls in flight
    home,               \* the HomePage with its productsPromise
    form,               \* the address form of the Checkout
    proxy,              \* one request handled by a serverless proxy handler
    jar,                \* document.cookie with the calls made on it
    orphan,             \* the requests of Checkout instances that were left
    modal               \* the ProductDetailModal of the HomePage

envVars == <<variant, dev>>
cacheVars == <<now, productCache, productsListCache, calls, ticks, ncalls, ev, tracked>>
chanVars == <<chan>>
cartVars == <<clock, cartPromises, requests, timers, page, cartCount, cartEv>>
coVars == <<checkout, coReq, coEv>>
restVars == <<ident, home>>
moreVars == <<form, proxy, jar, orphan, modal>>

vars == <<envVars, cookie, cacheVars, chanVars, cartVars, coVars, restVars, moreVars>>

----------------------------------------------------------------------------
(* Bounds of the model *)

MaxTicks == 2
MaxRequests == 2

----------------------------------------------------------------------------
(* Product records and the product cache *)

CACHE_DURATION == 5 * 60 * 1000

NoProduct == [product_id |-> "-", variants |-> <<>>]

\* The upstream's product records: "a" with one variant, "b" declaring a
\* variant whose id is the product id of "a", "c" with an empty variant id.
pA == [product_id |-> "a", variants |-> <<"a1">>]
pB == [product_id |-> "b", variants |-> <<"a">>]
pC == [product_id |-> "c", variants |-> <<"">>]

Catalogue == {pA, pB, pC}

Ids == {"a", "a1", "b", "c", ""}

\* The ids fetchProductDetail is asked for.
DetailIds == {"a", "a1", ""}

ProductLists == {<<pA>>, <<pC>>, <<pA, pB>>, <<pB, pA>>}

\* received: when the network response that delivered the record was handled
NoEntry == [product |-> NoProduct, timestamp |-> -1, received |-> -1]
NoList == [products |-> <<>>, timestamp |-> -1]

IdsOf(p) == {p.product_id} \cup {p.variants[i] : i \in 1..Len(p.variants)}

\* Date.now() - cached.timestamp < CACHE_DURATION
FreshStale(timestamp, t) == t - timestamp <= CACHE_DURATION
Fresh(timestamp, t) == t - timestamp < CACHE_DURATION

\* const cached = productCache.get(id); cached && fresh
CacheHit(cache, id, t) ==
    /\ cache[id] # NoEntry
    /\ Fresh(cache[id].timestamp, t)

\* productCache.set(variant.variant_id, ...) for each variant with a truthy id
RECURSIVE CacheVariants(_, _, _, _)
CacheVariants(cache, p, i, t) ==
    IF i > Len(p.variants) THEN cache
    ELSE LET v == p.variants[i]
             c2 == IF v # "" THEN [cache EXCEPT ![v] = [product |-> p, timestamp |-> t, received |-> t]]
                   ELSE cache
         IN CacheVariants(c2, p, i + 1, t)

\* The body of products.forEach in fetchProducts: the product id, then the variants.
CacheProductNoVariants(cache, p, t) ==
    [cache EXCEPT ![p.product_id] = [product |-> p, timestamp |-> t, received |-> t]]
CacheProduct(cache, p, t) ==
    CacheVariants([cache EXCEPT ![p.product_id] = [product |-> p, timestamp |-> t, received |-> t]],
                  p, 1, t)

\* products.forEach(...), in list order: a later write replaces an earlier one.
RECURSIVE PopulateFromList(_, _, _, _)
PopulateFromList(cache, products, i, t) ==
    IF i > Len(products) THEN cache
    ELSE PopulateFromList(CacheProduct(cache, products[i], t), products, i + 1, t)

\* The search of productsListCache.products: the first product whose
\* product_id or one of whose variant ids is the id asked for.
Matches(p, id) ==
    \/ p.product_id = id
    \/ \E i \in 1..Len(p.variants) : p.variants[i] = id

RECURSIVE ListFind(_, _, _)
ListFind(products, id, i) ==
    IF i > Len(products) THEN NoProduct
    ELSE IF Matches(products[i], id) THEN products[i]
    ELSE ListFind(products, id, i + 1)

ListFresh(list, t) == list # NoList /\ Fresh(list.timestamp, t)

\* What fetchProductDetail(id) answers without a network request:
\* "cache" (productCache), "list" (productsListCache) or "network".
DetailSource(id) ==
    IF CacheHit(productCache, id, now) THEN "cache"
    ELSE IF /\ variant = "webhook"
            /\ ListFresh(productsListCache, now)
            /\ ListFind(productsListCache.products, id, 1) # NoProduct
         THEN "list"
    ELSE "network"

DetailAnswer(id) ==
    CASE DetailSource(id) = "cache" -> productCache[id].product
      [] DetailSource(id) = "list" -> ListFind(productsListCache.products, id, 1)
      [] OTHER -> NoProduct

----------------------------------------------------------------------------
(* Responses of the upstream *)

\* The JSON of a get-product-detail answer: the product may sit at
\* payload.product, at product, or be the answer itself.
DetailBody(pp, pr, self) == [payloadProduct |-> pp, product |-> pr, self |-> self]

DetailBodies ==
    {DetailBody(p, NoProduct, NoProduct) : p \in Catalogue}
        \cup {DetailBody(NoProduct, pA, NoProduct),
              DetailBody(NoProduct, NoProduct, pB),
              DetailBody(pA, pB, NoProduct),
              DetailBody(NoProduct, pB, pA),
              DetailBody(NoProduct, NoProduct, NoProduct)}

\* payload.product, then product, then the answer itself when it has product_id
ExtractProduct(body) ==
    IF body.payloadProduct # NoProduct THEN body.payloadProduct
    ELSE IF body.product # NoProduct THEN body.product
    ELSE body.self

\* The JSON of a get-products answer: payload.products, or no payload.
ListBody(has, products) == [hasPayload |-> has, products |-> products]
ListBodies == {ListBody(TRUE, l) : l \in ProductLists} \cup {ListBody(FALSE, <<>>)}

\* The outcome of one fetch(): a network failure (a TypeError whose message
\* is the browser's: 'Failed to fetch' in some, another text in others), a
\* non-success status, a success whose body is not JSON, a success with JSON.
NetErr == [kind |-> "netErr", status |-> 0]
NetErrOther == [kind |-> "netErrOther", status |-> 0]
Http500 == [kind |-> "http", status |-> 500]
BadJson == [kind |-> "badJson", status |-> 200]
OkJson == [kind |-> "ok", status |-> 200]
Failures == {NetErr, NetErrOther, Http500, BadJson}

\* The outcomes of a request with their bodies: a failure carries no JSON.
Answers(bodies, none) ==
    {<<out, none>> : out \in Failures} \cup {<<OkJson, b>> : b \in bodies}

NoListBody == ListBody(FALSE, <<>>)
NoDetailBody == DetailBody(NoProduct, NoProduct, NoProduct)

----------------------------------------------------------------------------
(* Requests in flight and the event record *)

\* A request in flight: the operation, its argument, the channel of the
\* attempt under way, and a number that tells it from an equal request.
Call(op, arg, channel, n) == [op |-> op, arg |-> arg, chan |-> channel, n |-> n]

NewCall(op, arg, channel) ==
    Call(op, arg, channel,
         CHOOSE n \in 0..Cardinality(calls) :
            /\ Call(op, arg, channel, n) \notin calls
            /\ \A m \in 0..(n - 1) : Call(op, arg, channel, m) \in calls)

FirstChannel == IF variant = "direct" /\ dev THEN "proxy" ELSE "direct"

EvNone == [kind |-> "none", op |-> "none", arg |-> "", chan |-> "none",
           source |-> "none", product |-> NoProduct, err |-> "none",
           hadEntry |-> FALSE, entryTs |-> -1, received |-> -1]

\* The followed fetchProducts success: one product p of its list, the time of
\* the success, and whether another record has since been cached under an id
\* of p (by a later product of the same list, which forEach writes after p,
\* or by a later response).
NoTrack == [on |-> FALSE, product |-> NoProduct, time |-> -1, disturbed |-> FALSE]

KeysOf(p) == IdsOf(p) \ {""}

Track(products, i, t) ==
    [on |-> TRUE, product |-> products[i], time |-> t,
     disturbed |-> \E j \in (i + 1)..Len(products) :
                      /\ products[j] # products[i]
                      /\ KeysOf(products[j]) \cap KeysOf(products[i]) # {}]

Follow(oldCache, newCache, tr) ==
    IF ~tr.on THEN tr
    ELSE [tr EXCEPT !.disturbed =
             \/ tr.disturbed
             \/ \E k \in KeysOf(tr.product) :
                    /\ newCache[k] # oldCache[k]
                    /\ newCache[k].product # tr.product]

----------------------------------------------------------------------------
(* fetchProducts *)

\* The error a failed attempt on the last channel raises: the CORS hint for a
\* TypeError whose message includes 'Failed to fetch', any other TypeError of
\* fetch as it is, the status error, or the error of json().
ErrorOf(out) ==
    CASE out.kind = "ok" -> "none"
      [] out.kind = "netErr" -> "CORS"
      [] out.kind = "netErrOther" -> "TypeError"
      [] out.kind = "http" -> "HTTP"
      [] OTHER -> "JSON"

FetchProductsCall ==
    /\ ncalls < MaxRequests
    /\ calls' = calls \cup {NewCall("fetchProducts", "", FirstChannel)}
    /\ ncalls' = ncalls + 1
    /\ ev' = [EvNone EXCEPT !.kind = "call", !.op = "fetchProducts",
                            !.chan = FirstChannel]
    /\ UNCHANGED <<variant, dev, now, ticks, productCache, productsListCache, tracked>>
    /\ UNCHANGED <<cookie, chanVars, cartVars, coVars, restVars, moreVars>>

\* part_004 15-65: one fetch; a success caches the list and every product.
WebhookProductsReply(s, out, body) ==
    /\ variant = "webhook"
    /\ s.op = "fetchProducts"
    /\ calls' = calls \ {s}
    /\ IF out.kind = "ok" /\ body.hasPayload
       THEN LET cache2 == PopulateFromList(productCache, body.products, 1, now) IN
            /\ productsListCache' = [products |-> body.products, timestamp |-> now]
            /\ productCache' = cache2
            /\ \E tr \in {Follow(productCache, cache2, tracked)} \cup
                         {Track(body.products, i, now) :
                             i \in {j \in 1..Len(body.products) : ~tracked.on}} :
                  tracked' = tr
       ELSE UNCHANGED <<productCache, productsListCache, tracked>>
    /\ ev' = [EvNone EXCEPT
                 !.kind = IF out.kind = "ok" THEN "return" ELSE "throw",
                 !.op = "fetchProducts", !.chan = "direct",
                 !.err = ErrorOf(out)]
    /\ UNCHANGED <<variant, dev, now, ticks, ncalls>>
    /\ UNCHANGED <<cookie, chanVars, cartVars, coVars, restVars, moreVars>>

\* services/api.ts 10-61: the proxy attempt in dev mode, then the direct
\* endpoint; nothing is cached. (A success may become the followed one.)
DirectProductsReply(s, out, body) ==
    /\ variant = "direct"
    /\ s.op = "fetchProducts"
    /\ IF s.chan = "proxy" /\ out.kind # "ok"
       THEN /\ calls' = (calls \ {s}) \cup {[s EXCEPT !.chan = "direct"]}
            /\ ev' = [EvNone EXCEPT !.kind = "fallback", !.op = "fetchProducts",
                                    !.chan = "proxy", !.err = ErrorOf(out)]
            /\ UNCHANGED tracked
       ELSE /\ calls' = calls \ {s}
            /\ ev' = [EvNone EXCEPT
                         !.kind = IF out.kind = "ok" THEN "return" ELSE "throw",
                         !.op = "fetchProducts", !.chan = s.chan, !.err = ErrorOf(out)]
            /\ IF out.kind = "ok" /\ body.hasPayload
               THEN \E tr \in {tracked} \cup
                               {Track(body.products, i, now) :
                                   i \in {j \in 1..Len(body.products) : ~tracked.on}} :
                       tracked' = tr
               ELSE UNCHANGED tracked
    /\ UNCHANGED <<variant, dev, now, ticks, ncalls, productCache, productsListCache>>
    /\ UNCHANGED <<cookie, chanVars, cartVars, coVars, restVars, moreVars>>

----------------------------------------------------------------------------
(* fetchProductDetail *)

DetailEv(id, source, product) ==
    [EvNone EXCEPT !.kind = "return", !.op = "fetchProductDetail", !.arg = id,
                   !.source = source, !.product = product,
                   !.hadEntry = productCache[id] # NoEntry,
                   !.entryTs = productCache[id].timestamp,
                   !.received = CASE source = "cache" -> productCache[id].received
                                  [] source = "list" -> productsListCache.timestamp
                                  [] OTHER -> -1]

\* part_004 67-98 and services/api.ts 63-68: answer from productCache, then
\* (webhook) from productsListCache, else issue the request.
FetchProductDetailCall(id) ==
    LET source == DetailSource(id) IN
    /\ IF source = "cache"
       THEN /\ ev' = DetailEv(id, "cache", productCache[id].product)
            /\ UNCHANGED <<productCache, calls, ncalls, tracked>>
       ELSE IF source = "list"
       THEN LET p == ListFind(productsListCache.products, id, 1)
                cache2 == [productCache EXCEPT
                              ![id] = [product |-> p, timestamp |-> now,
                                       received |-> productsListCache.timestamp]]
            IN /\ productCache' = cache2
               /\ tracked' = Follow(productCache, cache2, tracked)
               /\ ev' = DetailEv(id, "list", p)
               /\ UNCHANGED <<calls, ncalls>>
       ELSE /\ ncalls < MaxRequests
            /\ calls' = calls \cup {NewCall("fetchProductDetail", id, FirstChannel)}
            /\ ncalls' = ncalls + 1
            /\ ev' = [DetailEv(id, "network", NoProduct) EXCEPT
                         !.kind = "call", !.chan = FirstChannel]
            /\ UNCHANGED <<productCache, tracked>>
    /\ UNCHANGED <<variant, dev, now, ticks, productsListCache>>
    /\ UNCHANGED <<cookie, chanVars, cartVars, coVars, restVars, moreVars>>

\* part_004 130-143: cache under the id asked for, under product_id when
\* truthy, and under every truthy variant id.
CacheDetailWebhook(cache, id, p, t) ==
    LET c1 == [cache EXCEPT ![id] = [product |-> p, timestamp |-> t, received |-> t]]
        c2 == IF p.product_id # ""
              THEN [c1 EXCEPT ![p.product_id] = [product |-> p, timestamp |-> t, received |-> t]]
              ELSE c1
    IN CacheVariants(c2, p, 1, t)

\* services/api.ts 101 and 141: cache under the id asked for only.
CacheDetailDirect(cache, id, p, t) ==
    [cache EXCEPT ![id] = [product |-> p, timestamp |-> t, received |-> t]]

\* part_004 100-151
WebhookDetailReply(s, out, body) ==
    LET id == s.arg
        p == ExtractProduct(body)
        good == out.kind = "ok" /\ p # NoProduct
        cache2 == CacheDetailWebhook(productCache, id, p, now)
    IN
    /\ variant = "webhook"
    /\ s.op = "fetchProductDetail"
    /\ calls' = calls \ {s}
    /\ IF good
       THEN /\ productCache' = cache2
            /\ tracked' = Follow(productCache, cache2, tracked)
       ELSE UNCHANGED <<productCache, tracked>>
    /\ ev' = [EvNone EXCEPT
                 !.kind = IF good THEN "return" ELSE "throw",
                 !.op = "fetchProductDetail", !.arg = id, !.chan = "direct",
                 !.source = "network",
                 !.product = IF good THEN p ELSE NoProduct,
                 !.err = IF out.kind = "ok" /\ p = NoProduct THEN "SHAPE"
                         ELSE ErrorOf(out)]
    /\ UNCHANGED <<variant, dev, now, ticks, ncalls, productsListCache>>
    /\ UNCHANGED <<cookie, chanVars, cartVars, coVars, restVars, moreVars>>

\* services/api.ts 73-153: a proxy answer that is no success, is not JSON or
\* has no product falls through to the direct endpoint.
DirectDetailReply(s, out, body) ==
    LET id == s.arg
        p == ExtractProduct(body)
        good == out.kind = "ok" /\ p # NoProduct
        cache2 == CacheDetailDirect(productCache, id, p, now)
    IN
    /\ variant = "direct"
    /\ s.op = "fetchProductDetail"
    /\ IF s.chan = "proxy" /\ ~good
       THEN /\ calls' = (calls \ {s}) \cup {[s EXCEPT !.chan = "direct"]}
            /\ ev' = [EvNone EXCEPT !.kind = "fallback", !.op = "fetchProductDetail",
                                    !.arg = id, !.chan = "proxy",
                                    !.err = IF out.kind = "ok" THEN "SHAPE"
                                            ELSE ErrorOf(out)]
            /\ UNCHANGED <<productCache, tracked>>
       ELSE /\ calls' = calls \ {s}
            /\ IF good
               THEN /\ productCache' = cache2
                    /\ tracked' = Follow(productCache, cache2, tracked)
               ELSE UNCHANGED <<productCache, tracked>>
            /\ ev' = [EvNone EXCEPT
                         !.kind = IF good THEN "return" ELSE "throw",
                         !.op = "fetchProductDetail", !.arg = id,
                         !.chan = s.chan, !.source = "network",
                         !.product = IF good THEN p ELSE NoProduct,
                         !.err = IF out.kind = "ok" /\ p = NoProduct THEN "SHAPE"
                                 ELSE ErrorOf(out)]
    /\ UNCHANGED <<variant, dev, now, ticks, ncalls, productsListCache>>
    /\ UNCHANGED <<cookie, chanVars, cartVars, coVars, restVars, moreVars>>

----------------------------------------------------------------------------
(* The clock *)

\* The clock advances by half the cache duration: an entry is seen at the
\* ages 0, 2.5, 5 and 7.5 minutes.
TickSteps == {CACHE_DURATION \div 2}

\* Date.now() is only ever compared with a stored timestamp, so the clock is
\* advanced only once something is stored.
Tick(d) ==
    /\ ticks < MaxTicks
    /\ \/ productsListCache # NoList
       \/ \E k \in Ids : productCache[k] # NoEntry
    /\ now' = now + d
    /\ ticks' = ticks + 1
    /\ ev' = [EvNone EXCEPT !.kind = "tick"]
    /\ UNCHANGED <<variant, dev, productCache, productsListCache, calls, ncalls, tracked>>
    /\ UNCHANGED <<cookie, chanVars, cartVars, coVars, restVars, moreVars>>

----------------------------------------------------------------------------
(* The direct/proxy client (services/api.ts): one operation at a time *)

Ops == {"fetchProducts", "fetchProductDetail", "addToCart", "getCartItems",
        "getCheckoutData", "submitCheckoutAddress", "submitShippingMethod",
        "processOfflinePayment"}

\* The id fetchProductDetail is called with here.
ChanDetailId == "a"

\* The cart ids a response of addToCart carries ("" when it carries none).
ResponseCartIds == {"", "c1", "c2"}

\* The JSON of an answer, as far as the client reads it: the product of a
\* get-product answer, and response.cart_id || response.payload?.cart_id.
ChanBody(detail, cartId) == [detail |-> detail, cartId |-> cartId]
NoChanBody == ChanBody(NoDetailBody, "")

ChanBodies(op) ==
    CASE op = "fetchProductDetail" -> {ChanBody(d, "") : d \in DetailBodies}
      [] op = "addToCart" -> {ChanBody(NoDetailBody, c) : c \in ResponseCartIds}
      [] OTHER -> {NoChanBody}

NoResult == [kind |-> "none", chan |-> "none", err |-> "none"]

ChanIdle == [op |-> "none", state |-> "idle", existingCartId |-> "",
             tried |-> <<>>, result |-> NoResult]

\* An attempt yields the operation's value: a success status, a JSON body
\* and, for fetchProductDetail, a product in it.
AttemptGood(op, out, body) ==
    /\ out.kind = "ok"
    /\ op = "fetchProductDetail" => ExtractProduct(body.detail) # NoProduct

\* The error of an attempt that yields no value.
AttemptError(op, out, body) ==
    IF out.kind = "ok" THEN "SHAPE" ELSE ErrorOf(out)

Attempt(channel, op, out, body) ==
    [chan |-> channel, out |-> out, good |-> AttemptGood(op, out, body),
     err |-> IF AttemptGood(op, out, body) THEN "none" ELSE AttemptError(op, out, body)]

\* What follows the proxy attempt: its value is returned; any failure is
\* caught (catch (proxyError)) or, in fetchProducts, falls out of the if,
\* and the direct attempt follows.
AfterProxyRethrow(good) == "done"
AfterProxy(good) == IF good THEN "done" ELSE "direct"

\* The side effects of a successful attempt: fetchProductDetail caches the
\* product under the id asked for; addToCart stores a cart id that differs
\* from the one read when the call started.
ChanEffects(op, body) ==
    /\ productCache' =
           IF op = "fetchProductDetail"
           THEN CacheDetailDirect(productCache, ChanDetailId,
                                  ExtractProduct(body.detail), now)
           ELSE productCache
    /\ cookie' =
           IF op = "addToCart" /\ body.cartId # "" /\ body.cartId # chan.existingCartId
           THEN body.cartId
           ELSE cookie

\* The call: fetchProductDetail answers from a fresh cache entry; otherwise
\* the first attempt is issued, on the proxy in dev mode.
ChanCall(op) ==
    /\ chan.state \in {"idle", "done"}
    /\ IF op = "fetchProductDetail" /\ CacheHit(productCache, ChanDetailId, now)
       THEN chan' = [op |-> op, state |-> "done", existingCartId |-> "",
                     tried |-> <<>>,
                     result |-> [kind |-> "return", chan |-> "cache", err |-> "none"]]
       ELSE chan' = [op |-> op, state |-> FirstChannel,
                     existingCartId |-> IF op = "addToCart" THEN cookie ELSE "",
                     tried |-> <<>>, result |-> NoResult]
    /\ UNCHANGED <<envVars, cookie, cacheVars, cartVars, coVars, restVars, moreVars>>

ChanProxyReply(out, body) ==
    LET op == chan.op
        good == AttemptGood(op, out, body)
        next == AfterProxy(good)
    IN
    /\ chan.state = "proxy"
    /\ chan' = [chan EXCEPT
                   !.state = next,
                   !.tried = Append(@, Attempt("proxy", op, out, body)),
                   !.result = IF next = "direct" THEN NoResult
                              ELSE IF good
                                   THEN [kind |-> "return", chan |-> "proxy", err |-> "none"]
                                   ELSE [kind |-> "throw", chan |-> "proxy",
                                         err |-> AttemptError(op, out, body)]]
    /\ IF good THEN ChanEffects(op, body) ELSE UNCHANGED <<productCache, cookie>>
    /\ UNCHANGED <<envVars, now, productsListCache, calls, ticks, ncalls, ev, tracked>>
    /\ UNCHANGED <<cartVars, coVars, restVars, moreVars>>

ChanDirectReply(out, body) ==
    LET op == chan.op
        good == AttemptGood(op, out, body)
    IN
    /\ chan.state = "direct"
    /\ chan' = [chan EXCEPT
                   !.state = "done",
                   !.tried = Append(@, Attempt("direct", op, out, body)),
                   !.result = IF good
                              THEN [kind |-> "return", chan |-> "direct", err |-> "none"]
                              ELSE [kind |-> "throw", chan |-> "direct",
                                    err |-> AttemptError(op, out, body)]]
    /\ IF good THEN ChanEffects(op, body) ELSE UNCHANGED <<productCache, cookie>>
    /\ UNCHANGED <<envVars, now, productsListCache, calls, ticks, ncalls, ev, tracked>>
    /\ UNCHANGED <<cartVars, coVars, restVars, moreVars>>

----------------------------------------------------------------------------
(* CartPage (part_001 146-367) with getCartItems of either client *)

\* setTimeout(() => cartPromises.delete(cartId), 100)
GraceDelay == 100

\* The clock advances by half the delay of the clearing timer.
ClockStep == GraceDelay \div 2

CartIds == {"c1"}

MaxCartRequests == 4
MaxLoads == 3
MaxCartTicks == 4

\* The outcome of one getCartItems call: a rejection, or the JSON with the
\* lengths of payload.line_items and payload.items.
CartOutcome(ok, lineItems, items) == [ok |-> ok, lineItems |-> lineItems, items |-> items]
CartFailure == CartOutcome(FALSE, 0, 0)
CartOutcomes == {CartFailure, CartOutcome(TRUE, 0, 0), CartOutcome(TRUE, 0, 1),
                 CartOutcome(TRUE, 1, 0)}

\* getCartItems of the webhook client deletes the cookie when both lists are
\* empty (part_004 278-282); getCartItems of the direct/proxy client never
\* touches the cookie (services/api.ts 294-348).
CookieAfterGetCartItems(outcome) ==
    IF variant = "webhook" /\ outcome.ok /\ outcome.lineItems = 0 /\ outcome.items = 0
    THEN ""
    ELSE cookie

\* A getCartItems request and the loads awaiting it: whether it was created
\* by the guarded path, how many loads await it, whether one of them belongs
\* to the instance on screen, and, once settled, when and with how many items.
Request(id, guarded, waiters, live) ==
    [id |-> id, guarded |-> guarded, waiters |-> waiters, live |-> live,
     settled |-> FALSE, settledAt |-> -1, items |-> 0]

NoPage == [mounted |-> FALSE, cartItems |-> 0, loading |-> TRUE, error |-> FALSE]

\* useState([]), useState(true), useState(null)
NewPage == [mounted |-> TRUE, cartItems |-> 0, loading |-> TRUE, error |-> FALSE]

CartEvNone == [kind |-> "none", absent |-> FALSE, called |-> FALSE, joined |-> "none",
               settledAt |-> -1, outcome |-> CartFailure, cookieBefore |-> ""]

NoCount == [requests |-> 0, lastSettled |-> -1]

\* The loads under way: those awaiting a request and those whose clearing
\* timer is pending.
RECURSIVE SumWaiters(_)
SumWaiters(rs) ==
    IF rs = {} THEN 0
    ELSE LET r == CHOOSE q \in rs : TRUE IN r.waiters + SumWaiters(rs \ {r})

LoadsUnderWay == SumWaiters({r \in requests : ~r.settled}) + Len(timers)

\* The moment a timer set at time t fires: setTimeout(..., 100)
DueTimeLate(t) == t + 2 * GraceDelay
DueTime(t) == t + GraceDelay

\* k times the same due time, appended in firing order
AddTimersNone(ts, due, k) == ts
RECURSIVE AddTimers(_, _, _)
AddTimers(ts, due, k) == IF k = 0 THEN ts ELSE AddTimers(Append(ts, due), due, k - 1)

\* loadCartItems(useCache), run k times in a row by the instance whose state
\* is base (k = 2 when StrictMode runs the mount effect twice).
\* Without a cookie: setCartItems([]), setLoading(false), return.
LoadCartItems(kind, useCache, k, base, others) ==
    IF cookie = ""
    THEN /\ page' = [base EXCEPT !.cartItems = 0, !.loading = FALSE]
         /\ requests' = others
         /\ cartEv' = [CartEvNone EXCEPT !.kind = kind, !.absent = TRUE]
         /\ UNCHANGED <<cartPromises, timers>>
         /\ UNCHANGED cartCount
    ELSE LET entry == cartPromises[cookie]
             id == cartCount.requests + 1
             started == [base EXCEPT !.loading = TRUE, !.error = FALSE]
         IN
         IF useCache /\ entry # 0
         THEN LET r == CHOOSE q \in others : q.id = entry IN
              IF r.settled
              THEN \* await of a settled promise: the load resumes at once
                   /\ page' = [started EXCEPT !.cartItems = r.items, !.loading = FALSE]
                   /\ timers' = AddTimers(timers, DueTime(clock), k)
                   /\ requests' = others
                   /\ cartEv' = [CartEvNone EXCEPT !.kind = kind, !.joined = "settled",
                                                   !.settledAt = r.settledAt]
                   /\ UNCHANGED <<cartPromises, cartCount>>
              ELSE /\ page' = started
                   /\ requests' = (others \ {r}) \cup
                                  {[r EXCEPT !.waiters = @ + k, !.live = TRUE]}
                   /\ cartEv' = [CartEvNone EXCEPT !.kind = kind, !.joined = "pending"]
                   /\ UNCHANGED <<cartPromises, timers, cartCount>>
         ELSE /\ cartCount.requests < MaxCartRequests
              /\ page' = started
              /\ requests' = others \cup {Request(id, useCache, k, TRUE)}
              /\ cartPromises' = IF useCache
                                 THEN [cartPromises EXCEPT ![cookie] = id]
                                 ELSE cartPromises
              /\ cartEv' = [CartEvNone EXCEPT !.kind = kind, !.called = TRUE,
                                              !.joined = "new"]
              /\ cartCount' = [cartCount EXCEPT !.requests = id]
              /\ UNCHANGED timers

\* The loads of the instances that left the screen go on, but their
\* setState calls no longer show.
DetachedNever == requests
Detached == {[r EXCEPT !.live = FALSE] : r \in requests}

\* A CartPage is mounted (navigation to /cart): the mount effect runs
\* initLoad, twice under StrictMode.
Mount(strict) ==
    /\ LoadsUnderWay + (IF strict THEN 2 ELSE 1) <= MaxLoads
    /\ LoadCartItems("mount", TRUE, IF strict THEN 2 ELSE 1, NewPage, Detached)
    /\ UNCHANGED <<envVars, cookie, clock, cacheVars, chanVars, coVars, restVars, moreVars>>

\* The CartPage leaves the screen (navigation to / or /checkout): the
\* cleanup of its effect runs (251-254) and its loads go on.
Unmount ==
    /\ page.mounted
    /\ page' = NoPage
    /\ requests' = Detached
    /\ cartEv' = [CartEvNone EXCEPT !.kind = "unmount"]
    /\ UNCHANGED <<envVars, cookie, clock, cartPromises, timers, cartCount,
                   cacheVars, chanVars, coVars, restVars, moreVars>>

\* The Retry button, shown when error && !loading
Retry ==
    /\ page.mounted /\ page.error /\ ~page.loading
    /\ LoadsUnderWay < MaxLoads
    /\ LoadCartItems("retry", FALSE, 1, page, requests)
    /\ UNCHANGED <<envVars, cookie, clock, cacheVars, chanVars, coVars, restVars, moreVars>>

\* handleRemoveItem: the items are shown when !loading && !error && length > 0
RemoveItem ==
    /\ page.mounted /\ ~page.error /\ ~page.loading /\ page.cartItems > 0
    /\ LoadsUnderWay < MaxLoads
    /\ LoadCartItems("remove", FALSE, 1, page, requests)
    /\ UNCHANGED <<envVars, cookie, clock, cacheVars, chanVars, coVars, restVars, moreVars>>

\* getCartItems settles and every load awaiting it resumes. The outcome is
\* that of the whole client call: in the direct/proxy client, of the last
\* channel it tried.
CartReply(r, outcome) ==
    /\ r \in requests /\ ~r.settled
    /\ cookie' = CookieAfterGetCartItems(outcome)
    /\ IF outcome.ok
       THEN \* each guarded load sets its timer, then setCartItems
            /\ timers' = IF r.guarded
                         THEN AddTimers(timers, DueTime(clock), r.waiters)
                         ELSE timers
            /\ requests' = (requests \ {r}) \cup
                   {[r EXCEPT !.settled = TRUE, !.settledAt = clock,
                              !.items = outcome.items, !.live = FALSE] :
                        x \in {c \in CartIds : cartPromises[c] = r.id}}
            /\ page' = IF r.live
                       THEN [page EXCEPT !.cartItems = outcome.items, !.loading = FALSE]
                       ELSE page
            /\ cartCount' = [cartCount EXCEPT
                                !.lastSettled = IF r.guarded THEN clock ELSE @]
            /\ UNCHANGED cartPromises
       ELSE \* catch: setError, setCartItems([]), cartPromises.delete(cartId)
            /\ cartPromises' = [c \in CartIds |-> 0]
            /\ requests' = {q \in requests \ {r} : ~q.settled}
            /\ page' = IF r.live
                       THEN [page EXCEPT !.cartItems = 0, !.error = TRUE, !.loading = FALSE]
                       ELSE page
            /\ UNCHANGED <<timers, cartCount>>
    /\ cartEv' = [CartEvNone EXCEPT !.kind = "reply", !.outcome = outcome,
                                    !.cookieBefore = cookie]
    /\ UNCHANGED <<envVars, clock, cacheVars, chanVars, coVars, restVars, moreVars>>

\* The oldest timer fires once it is due: cartPromises.delete(cartId)
FireTimer ==
    /\ timers # <<>>
    /\ Head(timers) <= clock
    /\ timers' = Tail(timers)
    /\ cartPromises' = [c \in CartIds |-> 0]
    /\ requests' = {q \in requests : ~q.settled}
    /\ cartEv' = [CartEvNone EXCEPT !.kind = "timer"]
    /\ UNCHANGED <<envVars, cookie, clock, page, cartCount, cacheVars, chanVars, coVars, restVars, moreVars>>

\* Time passes, but not beyond the moment a pending timer is due.
CartTick ==
    /\ clock < MaxCartTicks * ClockStep
    /\ page.mounted
    /\ IF timers = <<>> THEN TRUE ELSE Head(timers) > clock
    /\ clock' = clock + ClockStep
    /\ cartEv' = [CartEvNone EXCEPT !.kind = "tick"]
    /\ UNCHANGED <<envVars, cookie, cartPromises, requests, timers, page, cartCount,
                   cacheVars, chanVars, coVars, restVars, moreVars>>

----------------------------------------------------------------------------
(* The Checkout components (part_003): three-step 7-836, single-form 839-1471 *)

Method(id, isDefault) == [id |-> id, is_default |-> isDefault]

\* payload.checkout_shipping_methods.shipping_methods of an address answer
ShippingLists ==
    {<<>>,
     <<Method("m1", FALSE)>>,
     <<Method("m1", FALSE), Method("m2", TRUE)>>,
     <<Method("m1", FALSE), Method("m2", FALSE)>>,
     <<Method("m1", TRUE), Method("m2", TRUE)>>}

\* An answer as the handlers read it: the client call rejected, or the
\* status_code and status_message of the JSON and the shipping methods.
Response(threw, code, message, methods) ==
    [threw |-> threw, status_code |-> code, status_message |-> message,
     methods |-> methods]

Rejected == Response(TRUE, "", "", <<>>)

\* status_message of an answer; "" when the answer carries none
StatusMessages == {"success", "error", ""}

StatusResponses(lists) ==
    {Rejected} \cup
    {Response(FALSE, c, m, l) : c \in {"0", "1"}, m \in StatusMessages, l \in lists}

\* response.status_code === '0' || response.status_message === 'success'
SuccessAny(resp) == ~resp.threw
Success(resp) ==
    /\ ~resp.threw
    /\ resp.status_code = "0" \/ resp.status_message = "success"

\* The message of the Error a client call rejects with (part_004 476-485)
ClientError == "CORS error"

\* What the catch of a handler hands to setError for an answer that is not a
\* success: err.message of the client's Error, or of
\* new Error(response.status_message || fallback).
ErrorMessageNoFallback(resp, fallback) ==
    IF resp.threw THEN ClientError ELSE resp.status_message
ErrorMessage(resp, fallback) ==
    IF resp.threw THEN ClientError
    ELSE IF resp.status_message # "" THEN resp.status_message
    ELSE fallback

\* shippingMethodsData.find(m => m.is_default) || shippingMethodsData[0]
DefaultMethodFirst(methods) == methods[1]
DefaultMethod(methods) ==
    LET flagged == {i \in 1..Len(methods) : methods[i].is_default} IN
    IF flagged = {} THEN methods[1]
    ELSE methods[CHOOSE i \in flagged : \A j \in flagged : i <= j]

NoCheckout == [kind |-> "none", mounted |-> FALSE, currentStep |-> 1, loading |-> FALSE,
               error |-> FALSE, shippingMethods |-> <<>>,
               selectedShippingMethod |-> "", addressSubmitted |-> FALSE,
               confirmationData |-> "initial", address |-> ""]

\* useState(1), useState(false), useState(null), useState([]), useState(''),
\* useState({}); confirmationData is "initial" ({}), "fresh" (set from the
\* getCheckoutData of the latest shipping-method submission) or "stale" (set
\* for an earlier submission). address stands for the contents of
\* shippingAddress, billingAddress and sameBillingAddress together.
NewCheckout(kind) == [NoCheckout EXCEPT !.kind = kind, !.mounted = TRUE]

\* The awaited request of the running handler, with the values its closure
\* holds: the selected method and whether the list was non-empty.
Req(op, selected, hasMethods, nested) ==
    [op |-> op, selected |-> selected, hasMethods |-> hasMethods, nested |-> nested]
NoReq == Req("none", "", FALSE, FALSE)

\* kind: what happened; list: the methods of an address answer; stepBefore:
\* the stage before the step; invoked: processOfflinePayment was called in
\* this step; emptyBefore: an address submission of this component has
\* succeeded with an empty list; message: the text handed to setError by a
\* failed submission; navigated: the route of a navigate call of this step;
\* lastList: the methods of the most recent successful address submission
\* (answered: there has been one).
\* shipped: a submitShippingMethod of this component has returned success;
\* mode: the payment mode of the processOfflinePayment invoked in this step;
\* sent: the addresses in the payload of the latest submitCheckoutAddress;
\* acceptedAddress, acceptedMethod: the addresses and the method id of the
\* latest submissions that returned success.
CoEvNone == [kind |-> "none", list |-> <<>>, stepBefore |-> 1, invoked |-> FALSE,
             emptyBefore |-> FALSE, message |-> "", navigated |-> "",
             answered |-> FALSE, lastList |-> <<>>, shipped |-> FALSE, mode |-> "",
             sent |-> "", acceptedAddress |-> "", acceptedMethod |-> ""]

CoEv(kind) == [CoEvNone EXCEPT !.kind = kind, !.stepBefore = checkout.currentStep,
                               !.emptyBefore = coEv.emptyBefore,
                               !.answered = coEv.answered,
                               !.lastList = coEv.lastList,
                               !.shipped = coEv.shipped,
                               !.sent = coEv.sent,
                               !.acceptedAddress = coEv.acceptedAddress,
                               !.acceptedMethod = coEv.acceptedMethod]

\* An answer that reports success: status_code '0' or status_message 'success'
ReturnedOk(resp) ==
    /\ ~resp.threw
    /\ resp.status_code = "0" \/ resp.status_message = "success"

\* processOfflinePayment(cartId, 'cash_on_delivery') (319, 1054)
PaymentMode == "cash_on_delivery"

\* setState of a component that left the screen shows nothing.
SetState(next) == checkout' = IF checkout.mounted THEN next ELSE checkout

NotCheckout == <<envVars, cacheVars, chanVars, cartVars, restVars, moreVars>>

\* ---- three-step Checkout

\* handleSubmit up to the await (188-212); the submit button is disabled
\* while loading.
SubmitAddress ==
    /\ checkout.kind = "three" /\ checkout.mounted
    /\ checkout.currentStep = 1 /\ ~checkout.loading
    /\ IF cookie = ""
       THEN /\ checkout' = [checkout EXCEPT !.error = TRUE]
            /\ UNCHANGED coReq
       ELSE /\ checkout' = [checkout EXCEPT !.loading = TRUE, !.error = FALSE]
            /\ coReq' = Req("submitCheckoutAddress", "", FALSE, FALSE)
    /\ coEv' = [CoEv("submitAddress") EXCEPT
                  !.sent = IF cookie = "" THEN @ ELSE checkout.address]
    /\ UNCHANGED <<cookie, NotCheckout>>

\* handleSubmit after the await (214-239)
AddressReply(resp) ==
    /\ checkout.kind = "three"
    /\ coReq.op = "submitCheckoutAddress"
    /\ coReq' = NoReq
    /\ IF Success(resp) /\ Len(resp.methods) > 0
       THEN /\ SetState([checkout EXCEPT
                           !.shippingMethods = resp.methods,
                           !.selectedShippingMethod = DefaultMethod(resp.methods).id,
                           !.currentStep = 2,
                           !.loading = FALSE])
            /\ coEv' = [CoEv("addressOk") EXCEPT !.list = resp.methods,
                                                  !.answered = ReturnedOk(resp),
                                                  !.acceptedAddress = coEv.sent,
                                                  !.lastList = resp.methods]
       ELSE IF Success(resp)
       THEN \* alert('Address submitted successfully!'); TODO
            /\ SetState([checkout EXCEPT !.loading = FALSE])
            /\ coEv' = [CoEv("addressEmpty") EXCEPT !.emptyBefore = TRUE,
                                                     !.answered = ReturnedOk(resp),
                                                  !.acceptedAddress = coEv.sent,
                                                     !.lastList = <<>>]
       ELSE /\ SetState([checkout EXCEPT !.error = TRUE, !.loading = FALSE])
            /\ coEv' = [CoEv("addressFailed") EXCEPT
                          !.message = ErrorMessage(resp, "Failed to submit address")]
    /\ UNCHANGED <<cookie, NotCheckout>>

\* setSelectedShippingMethod(method.id) on a method card of stage 2
SelectMethod(i) ==
    /\ checkout.mounted
    /\ checkout.kind = "three" => checkout.currentStep = 2
    /\ checkout.kind = "single" => checkout.addressSubmitted
    /\ i \in 1..Len(checkout.shippingMethods)
    /\ checkout.selectedShippingMethod # checkout.shippingMethods[i].id
    /\ checkout' = [checkout EXCEPT
                      !.selectedShippingMethod = checkout.shippingMethods[i].id]
    /\ coEv' = CoEv("select")
    /\ UNCHANGED <<cookie, coReq, NotCheckout>>

\* handleShippingChange, handleBillingChange and the checkbox (137-186,
\* 923-973): the inputs of the address form are never disabled; the
\* three-step Checkout renders them at stage 1 only (372).
AddressDrafts == {"a", "b"}

EditAddress(v) ==
    /\ checkout.mounted
    /\ checkout.kind = "three" => checkout.currentStep = 1
    /\ v # checkout.address
    /\ checkout' = [checkout EXCEPT !.address = v]
    /\ coEv' = CoEv("edit")
    /\ UNCHANGED <<cookie, coReq, NotCheckout>>

\* handleShippingMethodSubmit up to the await (242-260); the button is
\* disabled while loading or without a selected method.
SubmitShipping ==
    /\ checkout.kind = "three" /\ checkout.mounted
    /\ checkout.currentStep = 2 /\ ~checkout.loading
    /\ checkout.selectedShippingMethod # ""
    /\ IF cookie = ""
       THEN /\ checkout' = [checkout EXCEPT !.error = TRUE]
            /\ UNCHANGED coReq
       ELSE \* a snapshot fetched for an earlier submission is now an old one
            /\ checkout' = [checkout EXCEPT
                              !.loading = TRUE, !.error = FALSE,
                              !.confirmationData = IF @ = "fresh" THEN "stale" ELSE @]
            /\ coReq' = Req("submitShippingMethod", checkout.selectedShippingMethod,
                            TRUE, FALSE)
    /\ coEv' = CoEv("submitShipping")
    /\ UNCHANGED <<cookie, NotCheckout>>

\* handleShippingMethodSubmit after the first await: a success goes on to
\* fetchConfirmationData, which awaits getCheckoutData (262-282).
ShippingReply(resp) ==
    /\ checkout.kind = "three"
    /\ coReq.op = "submitShippingMethod"
    /\ IF Success(resp)
       THEN /\ coReq' = [coReq EXCEPT !.op = "getCheckoutData"]
            /\ UNCHANGED checkout
            /\ coEv' = [CoEv("shippingOk") EXCEPT !.shipped = ReturnedOk(resp),
                                                   !.acceptedMethod = coReq.selected]
       ELSE /\ coReq' = NoReq
            /\ SetState([checkout EXCEPT !.error = TRUE, !.loading = FALSE])
            /\ coEv' = [CoEv("shippingFailed") EXCEPT
                          !.message = ErrorMessage(resp, "Failed to submit shipping method")]
    /\ UNCHANGED <<cookie, NotCheckout>>

\* fetchConfirmationData after its await (its catch keeps a failure to
\* itself; an answer without payload.checkout sets nothing), then
\* setCurrentStep(3) and the finally (284-306, 266-276).
ConfirmationReply(failed) ==
    /\ checkout.kind = "three"
    /\ coReq.op = "getCheckoutData"
    /\ coReq' = NoReq
    /\ \E hasCheckout \in BOOLEAN :
          SetState([checkout EXCEPT
                      !.error = failed, !.currentStep = 3, !.loading = FALSE,
                      !.confirmationData = IF ~failed /\ hasCheckout THEN "fresh" ELSE @])
    /\ coEv' = CoEv("confirmation")
    /\ UNCHANGED <<cookie, NotCheckout>>

\* handleConfirmOrder up to the await (308-319)
ConfirmOrder ==
    /\ checkout.kind = "three" /\ checkout.mounted
    /\ checkout.currentStep = 3 /\ ~checkout.loading
    /\ IF cookie = ""
       THEN /\ checkout' = [checkout EXCEPT !.error = TRUE]
            /\ UNCHANGED coReq
            /\ coEv' = CoEv("confirmOrder")
       ELSE /\ checkout' = [checkout EXCEPT !.loading = TRUE, !.error = FALSE]
            /\ coReq' = Req("processOfflinePayment", "", FALSE, FALSE)
            /\ coEv' = [CoEv("confirmOrder") EXCEPT !.invoked = TRUE,
                                                     !.mode = PaymentMode]
    /\ UNCHANGED <<cookie, NotCheckout>>

\* The cart_id cookie after the answer of processOfflinePayment: deleteCartId()
\* on a success (324, 1059), untouched otherwise.
CookieAfterPaymentAlways(resp) == ""
CookieAfterPayment(resp) == IF Success(resp) THEN "" ELSE cookie

\* After processOfflinePayment, in handleConfirmOrder (321-337) and in
\* handlePlaceOrder (1056-1072): deleteCartId and navigate('/') on success.
PaymentReply(resp) ==
    /\ coReq.op = "processOfflinePayment"
    /\ coReq' = NoReq
    /\ cookie' = CookieAfterPayment(resp)
    /\ IF Success(resp)
       THEN /\ checkout' = [checkout EXCEPT !.mounted = FALSE]
            /\ coEv' = [CoEv("orderPlaced") EXCEPT !.navigated = "/"]
       ELSE /\ SetState([checkout EXCEPT !.error = TRUE, !.loading = FALSE])
            /\ coEv' = [CoEv("paymentFailed") EXCEPT
                          !.message = ErrorMessage(resp, "Failed to place order")]
    /\ UNCHANGED NotCheckout

\* The Back button: three-step 347-357 (never disabled), single-form 1082
Back ==
    /\ checkout.mounted
    /\ checkout' =
          IF checkout.kind = "three" /\ checkout.currentStep = 2
          THEN [checkout EXCEPT !.currentStep = 1]
          ELSE IF checkout.kind = "three" /\ checkout.currentStep = 3
          THEN [checkout EXCEPT !.currentStep = 2]
          ELSE [checkout EXCEPT !.mounted = FALSE]
    /\ coEv' = [CoEv("back") EXCEPT
                  !.navigated = IF checkout.kind = "three" /\ checkout.currentStep \in {2, 3}
                                THEN "" ELSE "-1"]
    /\ UNCHANGED <<cookie, coReq, NotCheckout>>

\* ---- single-form Checkout

\* What handlePlaceOrder, run with the selected method and the list of its
\* closure, awaits first (1028-1054): nothing when it returns early, the
\* shipping-method submission, or the payment.
PlaceOrderFirstNone(selected, hasMethods) == "none"
PlaceOrderFirstShipping(selected, hasMethods) ==
    IF cookie = "" THEN "none" ELSE "submitShippingMethod"
PlaceOrderFirst(selected, hasMethods) ==
    IF cookie = "" THEN "none"
    ELSE IF selected = "" /\ hasMethods THEN "none"
    ELSE IF selected # "" /\ hasMethods THEN "submitShippingMethod"
    ELSE "processOfflinePayment"

\* handlePlaceOrder up to its first await, from the state base; nested when
\* handleAddressSubmit awaits it and runs its own finally afterwards.
PlaceOrder(kind, selected, hasMethods, nested, base) ==
    LET first == PlaceOrderFirst(selected, hasMethods) IN
    /\ IF first = "none"
       THEN /\ SetState([base EXCEPT !.error = TRUE,
                                     !.loading = IF nested THEN FALSE ELSE @])
            /\ coReq' = NoReq
       ELSE /\ SetState([base EXCEPT !.loading = TRUE, !.error = FALSE])
            /\ coReq' = Req(first, selected, hasMethods, nested)
    /\ coEv' = [CoEv(kind) EXCEPT
                   !.invoked = first = "processOfflinePayment",
                   !.mode = IF first = "processOfflinePayment" THEN PaymentMode ELSE "",
                   !.emptyBefore = coEv.emptyBefore \/ kind = "addressEmpty",
                   !.answered = coEv.answered \/ kind = "addressEmpty",
                   !.acceptedAddress = IF kind = "addressEmpty" THEN coEv.sent ELSE @,
                   !.lastList = IF kind = "addressEmpty" THEN <<>> ELSE coEv.lastList]

\* The form's onSubmit (1094): handleAddressSubmit until the address has been
\* submitted, handlePlaceOrder afterwards. The button is disabled while
\* loading, and without a selected method once methods are listed (1454).
SubmitForm ==
    /\ checkout.kind = "single" /\ checkout.mounted
    /\ ~checkout.loading
    /\ ~(/\ checkout.addressSubmitted
         /\ Len(checkout.shippingMethods) > 0
         /\ checkout.selectedShippingMethod = "")
    /\ IF checkout.addressSubmitted
       THEN PlaceOrder("placeOrder", checkout.selectedShippingMethod,
                       Len(checkout.shippingMethods) > 0, FALSE, checkout)
       ELSE /\ IF cookie = ""
               THEN /\ checkout' = [checkout EXCEPT !.error = TRUE]
                    /\ UNCHANGED coReq
               ELSE /\ checkout' = [checkout EXCEPT !.loading = TRUE, !.error = FALSE]
                    /\ coReq' = Req("submitCheckoutAddress",
                                    checkout.selectedShippingMethod,
                                    Len(checkout.shippingMethods) > 0, FALSE)
            /\ coEv' = [CoEv("submitAddress") EXCEPT
                          !.sent = IF cookie = "" THEN @ ELSE checkout.address]
    /\ UNCHANGED <<cookie, NotCheckout>>

\* handleAddressSubmit after the await (1001-1025): an empty list goes on to
\* handlePlaceOrder.
AddressReplySingle(resp) ==
    /\ checkout.kind = "single"
    /\ coReq.op = "submitCheckoutAddress"
    /\ IF Success(resp) /\ Len(resp.methods) > 0
       THEN /\ SetState([checkout EXCEPT
                           !.shippingMethods = resp.methods,
                           !.selectedShippingMethod = DefaultMethod(resp.methods).id,
                           !.addressSubmitted = TRUE,
                           !.loading = FALSE])
            /\ coReq' = NoReq
            /\ coEv' = [CoEv("addressOk") EXCEPT !.list = resp.methods,
                                                  !.answered = ReturnedOk(resp),
                                                  !.acceptedAddress = coEv.sent,
                                                  !.lastList = resp.methods]
       ELSE IF Success(resp)
       THEN PlaceOrder("addressEmpty", coReq.selected, coReq.hasMethods, TRUE, checkout)
       ELSE /\ SetState([checkout EXCEPT !.error = TRUE, !.loading = FALSE])
            /\ coReq' = NoReq
            /\ coEv' = [CoEv("addressFailed") EXCEPT
                          !.message = ErrorMessage(resp, "Failed to submit address")]
    /\ UNCHANGED <<cookie, NotCheckout>>

\* handlePlaceOrder after submitShippingMethod (1046-1054)
ShippingReplySingle(resp) ==
    /\ checkout.kind = "single"
    /\ coReq.op = "submitShippingMethod"
    /\ IF resp.threw \/ (resp.status_code # "0" /\ resp.status_message # "success")
       THEN /\ coReq' = NoReq
            /\ SetState([checkout EXCEPT !.error = TRUE, !.loading = FALSE])
            /\ coEv' = [CoEv("shippingFailed") EXCEPT
                          !.message = ErrorMessage(resp, "Failed to submit shipping method")]
       ELSE /\ coReq' = [coReq EXCEPT !.op = "processOfflinePayment"]
            /\ UNCHANGED checkout
            /\ coEv' = [CoEv("shippingOk") EXCEPT !.invoked = TRUE,
                                                   !.mode = PaymentMode,
                                                   !.shipped = ReturnedOk(resp),
                                                   !.acceptedMethod = coReq.selected]
    /\ UNCHANGED <<cookie, NotCheckout>>

----------------------------------------------------------------------------
(* The cart identity under overlapping calls: addToCart (part_004 182-234, *)
(* services/api.ts 182-271) and getCartItems (part_004 256-291,            *)
(* services/api.ts 294-348), as HomePage.updateCartCount, the modal and    *)
(* the cart views issue them without waiting for one another.              *)

MaxIdentRequests == 3

\* kind: what happened; carried: response.cart_id || response.payload?.cart_id
\* ("" when the answer carries none); cookieBefore: the cookie when the step
\* began.
IdentEvNone == [kind |-> "none", carried |-> "", cookieBefore |-> ""]

IdentIdle == [adds |-> {}, reads |-> {}, issued |-> 0, ev |-> IdentEvNone]

IdentEv(kind, carried) ==
    [kind |-> kind, carried |-> carried, cookieBefore |-> cookie]

\* if (cartId && cartId !== existingCartId) setCartId(cartId)
CookieAfterAddToCart(existingCartId, cartId) ==
    IF cartId # "" /\ cartId # existingCartId THEN cartId ELSE cookie

\* addToCart up to its fetch: existingCartId = getCartId()
AddToCartCall ==
    /\ ident.issued < MaxIdentRequests
    /\ ident' = [ident EXCEPT
                   !.adds = @ \cup {[id |-> ident.issued + 1,
                                     existingCartId |-> cookie]},
                   !.issued = @ + 1,
                   !.ev = IdentEv("addCall", "")]
    /\ UNCHANGED <<envVars, cookie, cacheVars, chanVars, cartVars, coVars, home, moreVars>>

\* addToCart after its awaits: the answer of the whole call (in the direct
\* client of the channel that answered), with the cart id it carries.
AddToCartReply(a, ok, cartId) ==
    /\ a \in ident.adds
    /\ cookie' = IF ok THEN CookieAfterAddToCart(a.existingCartId, cartId) ELSE cookie
    /\ ident' = [ident EXCEPT
                   !.adds = @ \ {a},
                   !.ev = IF ok THEN IdentEv("addOk", cartId)
                                ELSE IdentEv("addFailed", "")]
    /\ UNCHANGED <<envVars, cacheVars, chanVars, cartVars, coVars, home, moreVars>>

\* A caller of getCartItems: each reads the cookie and returns without a
\* request when it is absent (part_002 38-42, part_001 172-178).
GetCartItemsCall ==
    /\ ident.issued < MaxIdentRequests
    /\ cookie # ""
    /\ ident' = [ident EXCEPT
                   !.reads = @ \cup {[id |-> ident.issued + 1, cartId |-> cookie]},
                   !.issued = @ + 1,
                   !.ev = IdentEv("readCall", "")]
    /\ UNCHANGED <<envVars, cookie, cacheVars, chanVars, cartVars, coVars, home, moreVars>>

\* getCartItems after its awaits
GetCartItemsReply(r, outcome, cartId) ==
    /\ r \in ident.reads
    /\ cookie' = CookieAfterGetCartItems(outcome)
    /\ ident' = [ident EXCEPT
                   !.reads = @ \ {r},
                   !.ev = IF outcome.ok THEN IdentEv("readOk", cartId)
                                        ELSE IdentEv("readFailed", "")]
    /\ UNCHANGED <<envVars, cacheVars, chanVars, cartVars, coVars, home, moreVars>>

----------------------------------------------------------------------------
(* The HomePage with the shared productsPromise (pages/HomePage.tsx 9-62) *)

MaxHomeRequests == 3
MaxHomeLoads == 3
MaxHomeTicks == 4

\* useState([]), useState(true), useState(null)
NoHomePage == [mounted |-> FALSE, products |-> FALSE, loading |-> TRUE, error |-> FALSE]
NewHomePage == [NoHomePage EXCEPT !.mounted = TRUE]

\* productsPromise: 0 for null, else the fetchProducts call it holds, which
\* has fulfilled when it is not among the pending ones (a rejected one is
\* reset by the loads that awaited it). pending: the calls in flight with the
\* number of loads awaiting each and whether one of them belongs to the
\* instance on screen (isMounted). timers: the due times of the pending
\* setTimeout callbacks.
HomeIdle == [clock |-> 0, productsPromise |-> 0, pending |-> {}, timers |-> <<>>,
             issued |-> 0, page |-> NoHomePage, ev |-> "none"]

RestIdle ==
    /\ ident = IdentIdle
    /\ home = HomeIdle

RECURSIVE HomeWaiters(_)
HomeWaiters(rs) ==
    IF rs = {} THEN 0
    ELSE LET r == CHOOSE x \in rs : TRUE IN r.waiters + HomeWaiters(rs \ {r})

HomeLoadsUnderWay == HomeWaiters(home.pending) + Len(home.timers)

HomePending(id) == \E r \in home.pending : r.id = id

\* The effect of a mount: StrictMode runs it, cleans it up and runs it again
\* before any continuation, so both loads find the same productsPromise
\* (20-33, 55-61).
HomeMount(strict) ==
    LET k == IF strict THEN 2 ELSE 1
        detached == {[r EXCEPT !.live = FALSE] : r \in home.pending}
    IN
    /\ ~home.page.mounted
    /\ HomeLoadsUnderWay + k <= MaxHomeLoads
    /\ IF home.productsPromise = 0
       THEN \* productsPromise = fetchProducts()
            /\ home.issued < MaxHomeRequests
            /\ home' = [home EXCEPT
                          !.productsPromise = home.issued + 1,
                          !.issued = @ + 1,
                          !.pending = detached \cup
                              {[id |-> home.issued + 1, waiters |-> k, live |-> TRUE]},
                          !.page = NewHomePage,
                          !.ev = "created"]
       ELSE IF HomePending(home.productsPromise)
       THEN home' = [home EXCEPT
                       !.pending = {IF r.id = home.productsPromise
                                    THEN [r EXCEPT !.waiters = @ + k, !.live = TRUE]
                                    ELSE r : r \in detached},
                       !.page = NewHomePage,
                       !.ev = "joined"]
       ELSE \* a fulfilled promise: the loads resume at once (34-52)
            home' = [home EXCEPT
                       !.pending = detached,
                       !.timers = AddTimers(@, DueTime(home.clock), k),
                       !.page = [NewHomePage EXCEPT !.products = TRUE,
                                                    !.loading = FALSE],
                       !.ev = "reused"]
    /\ UNCHANGED <<envVars, cookie, cacheVars, chanVars, cartVars, coVars, ident, moreVars>>

\* The cleanup of the effect: isMounted = false (58-61)
HomeUnmount ==
    /\ home.page.mounted
    /\ home' = [home EXCEPT
                  !.pending = {[r EXCEPT !.live = FALSE] : r \in home.pending},
                  !.page = NoHomePage,
                  !.ev = "unmount"]
    /\ UNCHANGED <<envVars, cookie, cacheVars, chanVars, cartVars, coVars, ident, moreVars>>

\* fetchProducts settles and every load awaiting it resumes (34-52): the catch
\* resets productsPromise, the finally sets the 100 ms timer.
HomeReply(r, ok) ==
    /\ r \in home.pending
    /\ home' = [home EXCEPT
                  !.pending = @ \ {r},
                  !.productsPromise = IF ok THEN @ ELSE 0,
                  !.timers = AddTimers(@, DueTime(home.clock), r.waiters),
                  !.page = IF r.live
                           THEN [@ EXCEPT !.products = ok, !.error = ~ok,
                                          !.loading = FALSE]
                           ELSE @,
                  !.ev = IF ok THEN "fulfilled" ELSE "rejected"]
    /\ UNCHANGED <<envVars, cookie, cacheVars, chanVars, cartVars, coVars, ident, moreVars>>

\* setTimeout(() => { productsPromise = null }, 100)
HomeFireTimer ==
    /\ home.timers # <<>>
    /\ Head(home.timers) <= home.clock
    /\ home' = [home EXCEPT !.productsPromise = 0, !.timers = Tail(@),
                            !.ev = "timer"]
    /\ UNCHANGED <<envVars, cookie, cacheVars, chanVars, cartVars, coVars, ident, moreVars>>

\* Time passes; a timer that is due fires before time passes it.
HomeTick ==
    /\ home.clock < MaxHomeTicks * ClockStep
    /\ IF home.timers = <<>> THEN TRUE ELSE Head(home.timers) > home.clock
    /\ home' = [home EXCEPT !.clock = @ + ClockStep, !.ev = "tick"]
    /\ UNCHANGED <<envVars, cookie, cacheVars, chanVars, cartVars, coVars, ident, moreVars>>

----------------------------------------------------------------------------
(* The address form of the Checkout (part_003 25-186, 201-210; the         *)
(* single-form component has the same handlers at 863-973, 988-997)        *)

\* The values of a text field (first_name stands for the text fields, which
\* share one handler), of state and of country.
Texts == {"", "x"}
States == {"", "s"}
CountryCodes == {"A", "B"}

\* useState({first_name: '', ..., country: '', same_billing_address: true})
NewAddress == [first_name |-> "", state |-> "", country |-> "",
               same_billing_address |-> TRUE]

FieldValues(name) ==
    CASE name = "first_name" -> Texts
      [] name = "state" -> States
      [] OTHER -> CountryCodes \cup {""}

\* { [name]: value }, with state: '' added when the country changes
Updates(name, value) ==
    IF name = "country"
    THEN [n \in {"country", "state"} |-> IF n = "country" THEN value ELSE ""]
    ELSE [n \in {name} |-> value]

\* { ...prev, ...updates }
Merge(prev, updates) ==
    [f \in DOMAIN prev |-> IF f \in DOMAIN updates THEN updates[f] ELSE prev[f]]

\* handleShippingChange: if (sameBillingAddress) setBillingAddress(...)
BillingAfterShippingChangeNone(same, billing, updates) == billing
BillingAfterShippingChange(same, billing, updates) ==
    IF same THEN Merge(billing, updates) ELSE billing

\* prev => !prev.country ? { ...prev, country: defaultCountry } : prev
WithDefaultCountry(prev, defaultCountry) ==
    IF prev.country = "" THEN [prev EXCEPT !.country = defaultCountry] ELSE prev

NoPosted == [sent |-> FALSE, shipping_address |-> NewAddress,
             billing_address |-> NewAddress]

\* loads: the getCheckoutData requests of the mount effect still unanswered;
\* posted: the checkoutData of the last address submission.
FormIdle == [mounted |-> FALSE, shippingAddress |-> NewAddress,
             billingAddress |-> NewAddress, sameBillingAddress |-> TRUE,
             loadingAddressDetails |-> TRUE, countries |-> FALSE, loads |-> 0,
             posted |-> NoPosted]

\* The form after the mount effect ran k times (52-59): without a cart id
\* there is no request and the loading flag is dropped at once.
NewForm(k) ==
    [FormIdle EXCEPT !.mounted = TRUE,
                     !.loadingAddressDetails = cookie # "",
                     !.loads = IF cookie = "" THEN 0 ELSE k]

\* fetchAddressDetails after its await (61-129): a non-empty countries array
\* is stored and its first code becomes the country of the addresses that
\* have none; finally the loading flag is dropped.
AddressDetailsReply(hasCountries, defaultCountry) ==
    /\ form.mounted
    /\ form.loads > 0
    /\ form' = [form EXCEPT
                  !.loads = @ - 1,
                  !.countries = @ \/ hasCountries,
                  !.shippingAddress =
                      IF hasCountries THEN WithDefaultCountry(@, defaultCountry) ELSE @,
                  !.billingAddress =
                      IF hasCountries THEN WithDefaultCountry(@, defaultCountry) ELSE @,
                  !.loadingAddressDetails = FALSE,
                  !.posted = NoPosted]
    /\ UNCHANGED <<envVars, cookie, cacheVars, chanVars, cartVars, coVars, restVars,
                   proxy, jar, orphan, modal>>

\* The field can be edited: state and country are disabled while the address
\* details load, and the country select needs countries (452-517).
Editable(name) ==
    /\ name \in {"state", "country"} => ~form.loadingAddressDetails
    /\ name = "country" => form.countries

\* handleShippingChange (134-155)
ShippingChange(name, value) ==
    /\ form.mounted
    /\ Editable(name)
    /\ form' = [form EXCEPT
                  !.shippingAddress = Merge(@, Updates(name, value)),
                  !.billingAddress =
                      BillingAfterShippingChange(form.sameBillingAddress, @,
                                                 Updates(name, value)),
                  !.posted = NoPosted]
    /\ UNCHANGED <<envVars, cookie, cacheVars, chanVars, cartVars, coVars, restVars,
                   proxy, jar, orphan, modal>>

\* handleBillingChange (157-170); the billing section is rendered only while
\* the checkbox is off (539).
BillingChange(name, value) ==
    /\ form.mounted
    /\ ~form.sameBillingAddress
    /\ Editable(name)
    /\ form' = [form EXCEPT
                  !.billingAddress = Merge(@, Updates(name, value)),
                  !.posted = NoPosted]
    /\ UNCHANGED <<envVars, cookie, cacheVars, chanVars, cartVars, coVars, restVars,
                   proxy, jar, orphan, modal>>

\* handleSameBillingAddressChange (172-186): the flag is written to both
\* addresses, and checking the box copies the shipping address of this render.
SameBillingAddressChange ==
    LET checked == ~form.sameBillingAddress
        flagged == [form.billingAddress EXCEPT !.same_billing_address = checked]
    IN
    /\ form.mounted
    /\ form' = [form EXCEPT
                  !.sameBillingAddress = checked,
                  !.shippingAddress = [@ EXCEPT !.same_billing_address = checked],
                  !.billingAddress =
                      IF checked
                      THEN [Merge(flagged, form.shippingAddress) EXCEPT
                               !.same_billing_address = checked]
                      ELSE flagged,
                  !.posted = NoPosted]
    /\ UNCHANGED <<envVars, cookie, cacheVars, chanVars, cartVars, coVars, restVars,
                   proxy, jar, orphan, modal>>

\* The checkoutData an address submission posts (191-212); what the handler
\* does with the answer is the Checkout's SubmitAddress and AddressReply.
PostAddress ==
    /\ form.mounted
    /\ cookie # ""
    /\ form' = [form EXCEPT
                  !.posted =
                      [sent |-> TRUE,
                       shipping_address |->
                           [form.shippingAddress EXCEPT
                               !.same_billing_address = form.sameBillingAddress],
                       billing_address |->
                           [form.billingAddress EXCEPT
                               !.same_billing_address = form.sameBillingAddress]]]
    /\ UNCHANGED <<envVars, cookie, cacheVars, chanVars, cartVars, coVars, restVars,
                   proxy, jar, orphan, modal>>

\* Time passes until the oldest pending timer of the CartPage loads is due.
Elapse ==
    /\ timers # <<>>
    /\ Head(timers) > clock
    /\ clock' = Head(timers)
    /\ cartEv' = [CartEvNone EXCEPT !.kind = "tick"]
    /\ UNCHANGED <<envVars, cookie, cartPromises, requests, timers, page, cartCount,
                   cacheVars, chanVars, coVars, restVars, moreVars>>

\* Time passes until the oldest pending timer of the HomePage loads is due.
HomeElapse ==
    /\ home.timers # <<>>
    /\ Head(home.timers) > home.clock
    /\ home' = [home EXCEPT !.clock = Head(home.timers), !.ev = "tick"]
    /\ UNCHANGED <<envVars, cookie, cacheVars, chanVars, cartVars, coVars, ident, moreVars>>

----------------------------------------------------------------------------
(* The serverless proxy handlers: part_000 3-84 ("strict"), part_001 3-79  *)
(* ("lenient") and part_001 84-143 ("bare")                                *)

Handlers == {"strict", "lenient", "bare"}
Methods == {"OPTIONS", "GET", "POST"}

\* What the upstream fetch and the reading of its body can do: a status with
\* a JSON or a plain-text body, or a throw.
UpstreamOutcomes ==
    [throws : {FALSE}, status : {200, 404, 500}, json : BOOLEAN]
        \cup {[throws |-> TRUE, status |-> 0, json |-> FALSE]}

NoForward == [sent |-> FALSE, key |-> FALSE, body |-> FALSE]
NoAnswer == [sent |-> FALSE, status |-> 0, allowOrigin |-> FALSE, kind |-> "none"]

\* authKey: process.env holds VITE_WEBHOOK_AUTH_KEY or WEBHOOK_AUTH_KEY;
\* forward: the request sent to the webhook; answer: what res carries.
ProxyIdle == [authKey |-> FALSE, handler |-> "none", method |-> "none",
              hasBody |-> FALSE, stage |-> "idle", forward |-> NoForward,
              answer |-> NoAnswer]

\* The handlers that answer OPTIONS themselves (8-13)
AnswersPreflight(h) == h \in {"strict", "lenient"}

\* The handler that refuses to run without the auth key (32-38)
RequiresKey(h) == h = "strict"

\* 'key' is among the headers of the forwarded request: the strict handler
\* always sets it, the others under if (authKey).
ForwardsKey(h, authKey) == IF h = "strict" THEN TRUE ELSE authKey

\* res.setHeader('Access-Control-Allow-Origin', '*') precedes the answer
SetsAllowOrigin(h, kind) ==
    CASE kind = "preflight" -> TRUE
      [] kind = "config" -> FALSE
      [] OTHER -> h # "bare"

Answer(h, kind, status) ==
    [sent |-> TRUE, status |-> status, allowOrigin |-> SetsAllowOrigin(h, kind),
     kind |-> kind]

\* The handler up to its await fetch: the preflight answer, the
\* configuration error, or the request forwarded to the webhook.
HandlerCall(h, method, hasBody) ==
    /\ proxy.stage \in {"idle", "answered"}
    /\ proxy' =
         IF method = "OPTIONS" /\ AnswersPreflight(h)
         THEN [proxy EXCEPT !.handler = h, !.method = method, !.hasBody = hasBody,
                            !.stage = "answered", !.forward = NoForward,
                            !.answer = Answer(h, "preflight", 200)]
         ELSE IF RequiresKey(h) /\ ~proxy.authKey
         THEN [proxy EXCEPT !.handler = h, !.method = method, !.hasBody = hasBody,
                            !.stage = "answered", !.forward = NoForward,
                            !.answer = Answer(h, "config", 500)]
         ELSE [proxy EXCEPT !.handler = h, !.method = method, !.hasBody = hasBody,
                            !.stage = "forwarded",
                            !.forward = [sent |-> TRUE,
                                         key |-> ForwardsKey(h, proxy.authKey),
                                         body |-> method # "GET" /\ hasBody],
                            !.answer = NoAnswer]
    /\ UNCHANGED <<envVars, cookie, cacheVars, chanVars, cartVars, coVars, restVars,
                   form, jar, orphan, modal>>

\* The handler after its await: the upstream response is mirrored with its
\* status, and a throw of fetch or of response.text() is answered with 500.
HandlerReply(outcome) ==
    /\ proxy.stage = "forwarded"
    /\ proxy' = [proxy EXCEPT
                   !.stage = "answered",
                   !.answer = IF outcome.throws
                              THEN Answer(proxy.handler, "error", 500)
                              ELSE Answer(proxy.handler, "mirror", outcome.status)]
    /\ UNCHANGED <<envVars, cookie, cacheVars, chanVars, cartVars, coVars, restVars,
                   form, jar, orphan, modal>>

----------------------------------------------------------------------------
(* The cookie store: src/utils/cookies.ts 3-35 over document.cookie        *)

\* Strings are sequences of characters; the attributes that the code writes
\* after the value are single elements.
Chars == {"a", "b", ";", " ", "="}
MaxIdLen == 2

RECURSIVE Strings(_)
Strings(n) ==
    IF n = 0 THEN {<<>>}
    ELSE Strings(n - 1) \cup
         {Append(t, ch) : t \in {u \in Strings(n - 1) : Len(u) = n - 1}, ch \in Chars}

CartIdStrings == Strings(MaxIdLen)

CartIdName == <<"c", "a", "r", "t", "_", "i", "d">>

\* The position of the first ch in str, 0 when there is none
RECURSIVE IndexOf(_, _)
IndexOf(str, ch) ==
    IF str = <<>> THEN 0
    ELSE IF Head(str) = ch THEN 1
    ELSE LET i == IndexOf(Tail(str), ch) IN IF i = 0 THEN 0 ELSE i + 1

Before(str, ch) ==
    IF IndexOf(str, ch) = 0 THEN str ELSE SubSeq(str, 1, IndexOf(str, ch) - 1)
After(str, ch) ==
    IF IndexOf(str, ch) = 0 THEN <<>> ELSE SubSeq(str, IndexOf(str, ch) + 1, Len(str))

\* while (c.charAt(0) === ' ') c = c.substring(1, c.length)
RECURSIVE TrimLeft(_)
TrimLeft(str) ==
    IF str = <<>> THEN <<>>
    ELSE IF Head(str) = " " THEN TrimLeft(Tail(str)) ELSE str

RECURSIVE TrimRight(_)
TrimRight(str) ==
    IF str = <<>> THEN <<>>
    ELSE IF str[Len(str)] = " " THEN TrimRight(SubSeq(str, 1, Len(str) - 1)) ELSE str

Trim(str) == TrimRight(TrimLeft(str))

\* str.split(ch)
RECURSIVE Split(_, _)
Split(str, ch) ==
    IF IndexOf(str, ch) = 0 THEN <<str>>
    ELSE <<Before(str, ch)>> \o Split(After(str, ch), ch)

StartsWith(str, prefix) ==
    /\ Len(str) >= Len(prefix)
    /\ SubSeq(str, 1, Len(prefix)) = prefix

Null == [found |-> FALSE, text |-> <<>>]
Some(str) == [found |-> TRUE, text |-> str]

\* The cookies another part of the site may have stored before
OtherCookies ==
    {<<>>,
     <<[name |-> <<"l">>, value |-> <<"a">>]>>,
     <<[name |-> <<"x">> \o CartIdName, value |-> <<"b">>]>>,
     <<[name |-> <<"l">>, value |-> <<"a">>],
       [name |-> <<"x">> \o CartIdName, value |-> <<"b">>]>>}

\* cookies: the browser's store for this document, in the order of
\* document.cookie; last: the most recent setCartId or deleteCartId call.
NoCall == [kind |-> "none", cartId |-> <<>>]
JarIdle == [cookies |-> <<>>, last |-> NoCall]

\* The getter of document.cookie: name=value pairs joined by "; "
RECURSIVE CookieString(_)
CookieString(cs) ==
    IF cs = <<>> THEN <<>>
    ELSE Head(cs).name \o <<"=">> \o Head(cs).value \o
         (IF Tail(cs) = <<>> THEN <<>> ELSE <<";", " ">> \o CookieString(Tail(cs)))

\* The setter of document.cookie: the text up to the first ';' is the
\* name=value pair, split at its first '=' and trimmed; what follows are
\* attributes. An expiry in the past removes the cookie of that name, else
\* the cookie is replaced in place or added at the end.
RECURSIVE Without(_, _)
Without(cs, name) ==
    IF cs = <<>> THEN <<>>
    ELSE IF Head(cs).name = name THEN Without(Tail(cs), name)
    ELSE <<Head(cs)>> \o Without(Tail(cs), name)

AssignCookie(cs, str) ==
    LET pair == Before(str, ";")
        attrs == After(str, ";")
        name == Trim(Before(pair, "="))
        value == Trim(After(pair, "="))
    IN
    IF IndexOf(attrs, "expires=past") # 0 THEN Without(cs, name)
    ELSE IF \E i \in 1..Len(cs) : cs[i].name = name
    THEN [i \in 1..Len(cs) |->
             IF cs[i].name = name THEN [name |-> name, value |-> value] ELSE cs[i]]
    ELSE Append(cs, [name |-> name, value |-> value])

\* getCookie (3-12) on what document.cookie returns
RECURSIVE FirstMatch(_, _)
FirstMatch(ca, nameEQ) ==
    IF ca = <<>> THEN Null
    ELSE IF StartsWith(TrimLeft(Head(ca)), nameEQ)
    THEN Some(SubSeq(TrimLeft(Head(ca)), Len(nameEQ) + 1, Len(TrimLeft(Head(ca)))))
    ELSE FirstMatch(Tail(ca), nameEQ)

getCookie(cs, name) == FirstMatch(Split(CookieString(cs), ";"), name \o <<"=">>)

\* setCookie (14-19): `${name}=${value};${expires};path=/;SameSite=Lax`,
\* the value written as it is
setCookie(cs, name, value) ==
    AssignCookie(cs, name \o <<"=">> \o value \o
                     <<";", "expires=future", ";", "path=/", ";", "SameSite=Lax">>)

\* deleteCookie (21-23): `${name}=;expires=Thu, 01 Jan 1970 00:00:00 UTC;path=/;`
deleteCookie(cs, name) ==
    AssignCookie(cs, name \o <<"=", ";", "expires=past", ";", "path=/", ";">>)

\* getCartId (25-27)
getCartId == getCookie(jar.cookies, CartIdName)

\* setCartId (29-31)
SetCartId(cartId) ==
    /\ jar' = [cookies |-> setCookie(jar.cookies, CartIdName, cartId),
               last |-> [kind |-> "set", cartId |-> cartId]]
    /\ UNCHANGED <<envVars, cookie, cacheVars, chanVars, cartVars, coVars, restVars,
                   form, proxy, orphan, modal>>

\* deleteCartId (33-35)
DeleteCartId ==
    /\ jar' = [cookies |-> deleteCookie(jar.cookies, CartIdName),
               last |-> [kind |-> "delete", cartId |-> <<>>]]
    /\ UNCHANGED <<envVars, cookie, cacheVars, chanVars, cartVars, coVars, restVars,
                   form, proxy, orphan, modal>>

----------------------------------------------------------------------------
(* Leaving the Checkout and coming back to it                              *)

MaxVisits == 2

\* reqs: the requests in flight that were issued by Checkout instances no
\* longer on screen; visits: the Checkout instances mounted so far.
OrphanIdle == [reqs |-> {}, visits |-> 1]

\* The user comes back to /checkout after the page was left (the Back button
\* is not disabled while loading, part_003 347-357; navigate('/') after an
\* order): a new instance starts from its useState values, loading false,
\* and what the old instance awaited is still in flight.
Reenter ==
    /\ ~checkout.mounted
    /\ checkout.kind # "none"
    /\ orphan.visits < MaxVisits
    /\ checkout' = NewCheckout(checkout.kind)
    /\ orphan' = [reqs |-> orphan.reqs \cup (IF coReq.op = "none" THEN {} ELSE {coReq}),
                  visits |-> orphan.visits + 1]
    /\ coReq' = NoReq
    /\ coEv' = [CoEvNone EXCEPT !.kind = "mount"]
    /\ UNCHANGED <<envVars, cookie, cacheVars, chanVars, cartVars, restVars,
                   form, proxy, jar, modal>>

\* The operation that the handler of a left instance issues after the
\* answer resp to q: its setState calls show nowhere, its awaits go on.
OrphanNext(kind, q, resp) ==
    IF ~Success(resp) THEN "none"
    ELSE IF kind = "three" /\ q.op = "submitShippingMethod" THEN "getCheckoutData"
    ELSE IF kind = "single" /\ q.op = "submitShippingMethod" THEN "processOfflinePayment"
    ELSE IF kind = "single" /\ q.op = "submitCheckoutAddress" /\ Len(resp.methods) = 0
    THEN PlaceOrderFirst(q.selected, q.hasMethods)
    ELSE "none"

\* A request of a left instance is answered: the handler goes on in its
\* closure; a successful processOfflinePayment deletes the cookie and calls
\* navigate('/'), which takes the instance on screen away.
OrphanReply(q, resp) ==
    LET next == OrphanNext(checkout.kind, q, resp)
        paid == q.op = "processOfflinePayment" /\ Success(resp)
    IN
    /\ q \in orphan.reqs
    /\ q.op = "submitCheckoutAddress" \/ Len(resp.methods) = 0
    /\ orphan' = [orphan EXCEPT
                    !.reqs = (@ \ {q}) \cup
                             (IF next = "none" THEN {} ELSE {[q EXCEPT !.op = next]})]
    /\ cookie' = IF q.op = "processOfflinePayment" THEN CookieAfterPayment(resp)
                 ELSE cookie
    /\ checkout' = IF paid THEN [checkout EXCEPT !.mounted = FALSE] ELSE checkout
    /\ coEv' = [CoEv("orphanReply") EXCEPT !.navigated = IF paid THEN "/" ELSE ""]
    /\ UNCHANGED coReq
    /\ UNCHANGED <<envVars, cacheVars, chanVars, cartVars, restVars, form, proxy, jar, modal>>

----------------------------------------------------------------------------
(* The ProductDetailModal (utils/cookies.ts 275-573) as the HomePage opens *)
(* it (pages/HomePage.tsx 68-78, 164-168). The component stays mounted     *)
(* while closed (it renders null, 386), so its state outlives a close.    *)

MaxModalLoads == 3
MaxQuantity == 4

ModalVariants == {"a", "b", "c"}

\* What fetchProductDetail resolves with for a variant id: the product whose
\* first variant has that id, with its stock.
DetailOf(v) ==
    [variant_id |-> v,
     stock_available |-> IF v = "a" THEN 3 ELSE IF v = "b" THEN 1 ELSE 0,
     is_out_of_stock |-> v = "c"]

\* useState<Product | null>(null)
NoDetail == [variant_id |-> "", stock_available |-> 0, is_out_of_stock |-> FALSE]

\* sent: the latest addToCart call, with the stock of the first variant of
\* the product displayed when it was made.
NoAdd == [called |-> FALSE, variant |-> "", quantity |-> 0, stock |-> 0]

\* selectedVariantId null, isModalOpen false (HomePage 17-18) and the
\* useState initial values (287-293); loads: the fetchProductDetail requests
\* in flight; issued: how many were started.
ModalIdle == [variantId |-> "", isOpen |-> FALSE, product |-> NoDetail,
              loading |-> FALSE, error |-> FALSE, selectedImageIndex |-> 0,
              addingToCart |-> FALSE, cartMessage |-> "", quantity |-> 1,
              loads |-> {}, issued |-> 0, sent |-> NoAdd]

NotModal == <<envVars, cookie, cacheVars, chanVars, cartVars, coVars, restVars,
              form, proxy, jar, orphan>>

\* product && !loading && !error (400-413): the product content is rendered
Visible == modal.isOpen /\ modal.product # NoDetail /\ ~modal.loading /\ ~modal.error

\* handleProductClick (HomePage 68-74) and the effect on [variantId, isOpen]
\* that follows the render (295-315): loadProduct up to its await. The cards
\* lie under the overlay while the modal is open.
ProductClick(v) ==
    /\ ~modal.isOpen
    /\ modal.issued < MaxModalLoads
    /\ modal' = [modal EXCEPT !.variantId = v, !.isOpen = TRUE,
                              !.loading = TRUE, !.error = FALSE,
                              !.loads = @ \cup {[v |-> v, n |-> modal.issued + 1]},
                              !.issued = @ + 1]
    /\ UNCHANGED NotModal

\* handleCloseModal (HomePage 76-78): the effect runs again and returns at
\* once (297-299); no state of the modal is reset.
CloseModal ==
    /\ modal.isOpen
    /\ modal' = [modal EXCEPT !.isOpen = FALSE]
    /\ UNCHANGED NotModal

\* loadProduct after its await (303-312): no test that the answer belongs to
\* the current variantId.
ProductReply(q, ok) ==
    /\ q \in modal.loads
    /\ modal' = IF ok
                THEN [modal EXCEPT !.loads = @ \ {q}, !.product = DetailOf(q.v),
                                   !.selectedImageIndex = 0, !.loading = FALSE]
                ELSE [modal EXCEPT !.loads = @ \ {q}, !.error = TRUE,
                                   !.loading = FALSE]
    /\ UNCHANGED NotModal

\* setSelectedImageIndex(index) on a thumbnail
SelectImage(i) ==
    /\ Visible
    /\ i # modal.selectedImageIndex
    /\ modal' = [modal EXCEPT !.selectedImageIndex = i]
    /\ UNCHANGED NotModal

\* parseInt(e.target.value) || 1 (540): NaN and 0 become 1
TypedValue(t) == IF t = 0 THEN 1 ELSE t

\* handleQuantityChange (345-355): the quantity it sets
QuantityAfter(quantity, product, newQuantity) ==
    IF newQuantity < 1 THEN quantity
    ELSE IF product.stock_available # 0 /\ newQuantity > product.stock_available
    THEN product.stock_available
    ELSE newQuantity

\* The "-" button (528-529), the "+" button (545-549) and the input (540)
QuantityChange(newQuantity) ==
    /\ Visible
    /\ \/ newQuantity = modal.quantity - 1 /\ modal.quantity > 1
       \/ /\ newQuantity = modal.quantity + 1
          /\ ~modal.product.is_out_of_stock
          /\ modal.quantity < modal.product.stock_available
       \/ \E t \in -1..MaxQuantity : newQuantity = TypedValue(t)
    /\ modal' = [modal EXCEPT
                   !.quantity = QuantityAfter(modal.quantity, modal.product, newQuantity)]
    /\ UNCHANGED NotModal

\* handleAddToCart up to its await (321-332); the button is disabled while
\* adding, for a product out of stock and for a quantity below 1 (559).
AddToCart ==
    /\ Visible
    /\ ~modal.addingToCart /\ ~modal.product.is_out_of_stock
    /\ modal.variantId # "" /\ modal.quantity >= 1
    /\ modal' = [modal EXCEPT
                   !.addingToCart = TRUE, !.cartMessage = "",
                   !.sent = [called |-> TRUE,
                             variant |-> modal.product.variant_id,
                             quantity |-> modal.quantity,
                             stock |-> modal.product.stock_available]]
    /\ UNCHANGED NotModal

\* handleAddToCart after its await (334-342)
AddReply(ok) ==
    /\ modal.addingToCart
    /\ modal' = IF ok
                THEN [modal EXCEPT !.cartMessage = "added", !.quantity = 1,
                                   !.addingToCart = FALSE]
                ELSE [modal EXCEPT !.cartMessage = "failed", !.addingToCart = FALSE]
    /\ UNCHANGED NotModal

\* setTimeout(() => setCartMessage(null), ...) (335, 339): every message
\* set has a timer pending.
ClearMessage ==
    /\ modal.cartMessage # ""
    /\ modal' = [modal EXCEPT !.cartMessage = ""]
    /\ UNCHANGED NotModal

----------------------------------------------------------------------------
(* Specifications *)

MoreIdle ==
    /\ form = FormIdle
    /\ proxy = ProxyIdle
    /\ jar = JarIdle
    /\ orphan = OrphanIdle
    /\ modal = ModalIdle

CacheIdle ==
    /\ now = 0
    /\ productCache = [k \in Ids |-> NoEntry]
    /\ productsListCache = NoList
    /\ calls = {}
    /\ ticks = 0
    /\ ncalls = 0
    /\ ev = EvNone
    /\ tracked = NoTrack

CartIdle ==
    /\ clock = 0
    /\ cartPromises = [c \in CartIds |-> 0]
    /\ requests = {}
    /\ timers = <<>>
    /\ page = NoPage
    /\ cartCount = NoCount
    /\ cartEv = CartEvNone

CheckoutIdle ==
    /\ checkout = NoCheckout
    /\ coReq = NoReq
    /\ coEv = CoEvNone

\* SpecCache: the product operations of both client variants
InitCache ==
    /\ variant \in {"webhook", "direct"}
    /\ dev \in BOOLEAN
    /\ variant = "webhook" => ~dev      \* the webhook client never reads DEV
    /\ cookie = ""
    /\ CacheIdle
    /\ chan = ChanIdle
    /\ CartIdle
    /\ RestIdle
    /\ MoreIdle
    /\ CheckoutIdle

NextCache ==
    \/ FetchProductsCall
    \/ \E s \in calls, a \in Answers(ListBodies, NoListBody) :
          WebhookProductsReply(s, a[1], a[2])
    \/ \E s \in calls, a \in Answers(ListBodies, NoListBody) :
          DirectProductsReply(s, a[1], a[2])
    \/ \E id \in DetailIds : FetchProductDetailCall(id)
    \/ \E s \in calls, a \in Answers(DetailBodies, NoDetailBody) :
          WebhookDetailReply(s, a[1], a[2])
    \/ \E s \in calls, a \in Answers(DetailBodies, NoDetailBody) :
          DirectDetailReply(s, a[1], a[2])
    \/ \E d \in TickSteps : Tick(d)

SpecCache == InitCache /\ [][NextCache]_vars

\* SpecChannel: the operations of the direct/proxy client, one at a time
InitChannel ==
    /\ variant = "direct"
    /\ dev \in BOOLEAN
    /\ cookie \in {"", "c1"}
    /\ CacheIdle
    /\ chan = ChanIdle
    /\ CartIdle
    /\ RestIdle
    /\ MoreIdle
    /\ CheckoutIdle

NextChannel ==
    \/ \E op \in Ops : ChanCall(op)
    \/ \E a \in Answers(ChanBodies(chan.op), NoChanBody) : ChanProxyReply(a[1], a[2])
    \/ \E a \in Answers(ChanBodies(chan.op), NoChanBody) : ChanDirectReply(a[1], a[2])

SpecChannel == InitChannel /\ [][NextChannel]_vars

\* SpecCart: the CartPage with getCartItems of either client
InitCart ==
    /\ variant \in {"webhook", "direct"}
    /\ dev = FALSE
    /\ cookie \in {"", "c1"}
    /\ CacheIdle
    /\ chan = ChanIdle
    /\ CartIdle
    /\ RestIdle
    /\ MoreIdle
    /\ CheckoutIdle

NextCart ==
    \/ \E strict \in BOOLEAN : Mount(strict)
    \/ Retry
    \/ RemoveItem
    \/ \E r \in requests, outcome \in CartOutcomes : CartReply(r, outcome)
    \/ FireTimer
    \/ CartTick

SpecCart == InitCart /\ [][NextCart]_vars

\* SpecCheckout: one visit of a Checkout page, three-step or single-form
InitCheckout ==
    /\ variant \in {"webhook", "direct"}
    /\ dev = FALSE
    /\ cookie \in {"", "c1"}
    /\ CacheIdle
    /\ chan = ChanIdle
    /\ CartIdle
    /\ RestIdle
    /\ MoreIdle
    /\ checkout \in {NewCheckout("three"), NewCheckout("single")}
    /\ coReq = NoReq
    /\ coEv = CoEvNone

NextCheckout ==
    \/ SubmitAddress
    \/ \E resp \in StatusResponses(ShippingLists) : AddressReply(resp)
    \/ \E i \in 1..2 : SelectMethod(i)
    \/ SubmitShipping
    \/ \E resp \in StatusResponses({<<>>}) : ShippingReply(resp)
    \/ \E failed \in BOOLEAN : ConfirmationReply(failed)
    \/ ConfirmOrder
    \/ \E resp \in StatusResponses({<<>>}) : PaymentReply(resp)
    \/ Back
    \/ SubmitForm
    \/ \E resp \in StatusResponses(ShippingLists) : AddressReplySingle(resp)
    \/ \E resp \in StatusResponses({<<>>}) : ShippingReplySingle(resp)

SpecCheckout == InitCheckout /\ [][NextCheckout]_vars

\* SpecModal: the HomePage with its ProductDetailModal
InitModal ==
    /\ variant \in {"webhook", "direct"}
    /\ dev = FALSE
    /\ cookie \in {"", "c1"}
    /\ CacheIdle
    /\ chan = ChanIdle
    /\ CartIdle
    /\ RestIdle
    /\ CheckoutIdle
    /\ MoreIdle

NextModal ==
    \/ \E v \in ModalVariants : ProductClick(v)
    \/ CloseModal
    \/ \E q \in modal.loads, ok \in BOOLEAN : ProductReply(q, ok)
    \/ \E i \in {0, 1} : SelectImage(i)
    \/ \E newQuantity \in 0..MaxQuantity : QuantityChange(newQuantity)
    \/ AddToCart
    \/ \E ok \in BOOLEAN : AddReply(ok)
    \/ ClearMessage

SpecModal == InitModal /\ [][NextModal]_vars

\* SpecEdits: the same visit with a user who also edits the address form
NextEdits ==
    \/ NextCheckout
    \/ \E v \in AddressDrafts : EditAddress(v)

SpecEdits == InitCheckout /\ [][NextEdits]_vars

\* The same visit with a user who keeps using the buttons that are enabled
\* and an upstream that does not refuse for ever: an action that is enabled
\* again and again is eventually taken.
AddressAdvances ==
    \E resp \in StatusResponses(ShippingLists) :
        /\ Success(resp) /\ Len(resp.methods) > 0
        /\ AddressReply(resp)

ShippingAdvances ==
    \E resp \in StatusResponses({<<>>}) : Success(resp) /\ ShippingReply(resp)

SpecCheckoutFair ==
    /\ SpecCheckout
    /\ SF_vars(SubmitAddress)
    /\ SF_vars(AddressAdvances)
    /\ SF_vars(SubmitShipping)
    /\ SF_vars(ShippingAdvances)
    /\ WF_vars(\E failed \in BOOLEAN : ConfirmationReply(failed))
    /\ SF_vars(ConfirmOrder)

\* SpecIdentity: addToCart and getCartItems calls that overlap
InitIdentity ==
    /\ variant \in {"webhook", "direct"}
    /\ dev = FALSE
    /\ cookie \in {"", "c1"}
    /\ CacheIdle
    /\ chan = ChanIdle
    /\ CartIdle
    /\ RestIdle
    /\ MoreIdle
    /\ CheckoutIdle

NextIdentity ==
    \/ AddToCartCall
    \/ \E a \in ident.adds, ok \in BOOLEAN, c \in ResponseCartIds : AddToCartReply(a, ok, c)
    \/ GetCartItemsCall
    \/ \E r \in ident.reads, outcome \in CartOutcomes, c \in ResponseCartIds :
          GetCartItemsReply(r, outcome, c)

SpecIdentity == InitIdentity /\ [][NextIdentity]_vars

\* SpecHome: the HomePage being mounted and left while fetchProducts calls
\* are under way
InitHome ==
    /\ variant = "direct"
    /\ dev = FALSE
    /\ cookie = ""
    /\ CacheIdle
    /\ chan = ChanIdle
    /\ CartIdle
    /\ RestIdle
    /\ MoreIdle
    /\ CheckoutIdle

NextHome ==
    \/ \E strict \in BOOLEAN : HomeMount(strict)
    \/ HomeUnmount
    \/ \E r \in home.pending, ok \in BOOLEAN : HomeReply(r, ok)
    \/ HomeFireTimer
    \/ HomeTick

SpecHome == InitHome /\ [][NextHome]_vars

\* SpecVisits: the Checkout over several visits of /checkout
NextVisits ==
    \/ NextCheckout
    \/ Reenter
    \/ \E q \in orphan.reqs, resp \in StatusResponses(ShippingLists) : OrphanReply(q, resp)

SpecVisits == InitCheckout /\ [][NextVisits]_vars

\* SpecAddress: the address form from the mount of a Checkout on
FormFields == {"first_name", "state", "country"}

InitAddress ==
    /\ variant \in {"webhook", "direct"}
    /\ dev = FALSE
    /\ cookie \in {"", "c1"}
    /\ CacheIdle
    /\ chan = ChanIdle
    /\ CartIdle
    /\ RestIdle
    /\ CheckoutIdle
    /\ form \in {NewForm(k) : k \in {1, 2}}
    /\ proxy = ProxyIdle
    /\ jar = JarIdle
    /\ orphan = OrphanIdle
    /\ modal = ModalIdle

NextAddress ==
    \/ \E has \in BOOLEAN, c \in CountryCodes : AddressDetailsReply(has, c)
    \/ \E name \in FormFields : \E value \in FieldValues(name) : ShippingChange(name, value)
    \/ \E name \in FormFields : \E value \in FieldValues(name) : BillingChange(name, value)
    \/ SameBillingAddressChange
    \/ PostAddress

SpecAddress == InitAddress /\ [][NextAddress]_vars

\* SpecProxy: requests handled one after another by the three handlers
InitProxy ==
    /\ variant \in {"webhook", "direct"}
    /\ dev = FALSE
    /\ cookie = ""
    /\ CacheIdle
    /\ chan = ChanIdle
    /\ CartIdle
    /\ RestIdle
    /\ CheckoutIdle
    /\ form = FormIdle
    /\ proxy \in {[ProxyIdle EXCEPT !.authKey = k] : k \in BOOLEAN}
    /\ jar = JarIdle
    /\ orphan = OrphanIdle
    /\ modal = ModalIdle

NextProxy ==
    \/ \E h \in Handlers, method \in Methods, hasBody \in BOOLEAN :
           HandlerCall(h, method, hasBody)
    \/ \E outcome \in UpstreamOutcomes : HandlerReply(outcome)

SpecProxy == InitProxy /\ [][NextProxy]_vars

\* SpecPages: the router shows one page at a time, HomePage at / and
\* CartPage at /cart, and the user goes from one to the other.
InitPages ==
    /\ variant \in {"webhook", "direct"}
    /\ dev = FALSE
    /\ cookie \in {"", "c1"}
    /\ CacheIdle
    /\ chan = ChanIdle
    /\ CartIdle
    /\ RestIdle
    /\ CheckoutIdle
    /\ MoreIdle

NextPages ==
    \/ \E strict \in BOOLEAN : ~home.page.mounted /\ Mount(strict)
    \/ Unmount
    \/ Retry
    \/ RemoveItem
    \/ \E r \in requests, outcome \in CartOutcomes : CartReply(r, outcome)
    \/ \E strict \in BOOLEAN : ~page.mounted /\ HomeMount(strict)
    \/ HomeUnmount
    \/ \E r \in home.pending, ok \in BOOLEAN : HomeReply(r, ok)

SpecPages == InitPages /\ [][NextPages]_vars

\* SpecGuards: the two in-flight guards with their timers. cartPromises
\* and productsPromise share no state, so a behaviour exercises one of them:
\* a session on the CartPage or a session on the HomePage. Of the loads
\* that bypass cartPromises, loadCartItems(false), the one of Retry is kept:
\* its catch deletes the entry; the one of handleRemoveItem runs the same
\* code.
NextGuards ==
    \/ /\ home = HomeIdle
       /\ \/ \E strict \in BOOLEAN : Mount(strict)
          \/ Retry
          \/ \E r \in requests, outcome \in CartOutcomes : CartReply(r, outcome)
          \/ FireTimer
          \/ Elapse
    \/ /\ cartEv = CartEvNone
       /\ \/ \E strict \in BOOLEAN : HomeMount(strict)
          \/ HomeUnmount
          \/ \E r \in home.pending, ok \in BOOLEAN : HomeReply(r, ok)
          \/ HomeFireTimer
          \/ HomeElapse

SpecGuards == InitPages /\ [][NextGuards]_vars

\* The event loop runs a timer that is due, and time does not stand still
\* while a timer is pending.
SpecGuardsFair ==
    /\ SpecGuards
    /\ WF_vars(FireTimer)
    /\ WF_vars(Elapse)
    /\ WF_vars(HomeFireTimer)
    /\ WF_vars(HomeElapse)

\* SpecJar: setCartId and deleteCartId calls on a store that may hold other
\* cookies
InitJar ==
    /\ variant \in {"webhook", "direct"}
    /\ dev = FALSE
    /\ cookie = ""
    /\ CacheIdle
    /\ chan = ChanIdle
    /\ CartIdle
    /\ RestIdle
    /\ CheckoutIdle
    /\ form = FormIdle
    /\ proxy = ProxyIdle
    /\ jar \in {[JarIdle EXCEPT !.cookies = cs] : cs \in OtherCookies}
    /\ orphan = OrphanIdle
    /\ modal = ModalIdle

NextJar ==
    \/ \E cartId \in CartIdStrings : SetCartId(cartId)
    \/ DeleteCartId

SpecJar == InitJar /\ [][NextJar]_vars

----------------------------------------------------------------------------
(* Claims about the product cache (SpecCache) *)

FiveMinutes == 5 * 60 * 1000

InWindow == tracked.on /\ now - tracked.time < FiveMinutes

\* C1 (as stated): in the webhook client, less than 5 minutes after a fetchProducts success with
\* list L, for every product p of L and every variant v of p,
\* fetchProductDetail(p.product_id) and fetchProductDetail(v.variant_id)
\* return the same record, whatever the other products of L declare and
\* whatever calls complete in between. (A lookup that needs the network is
\* left out: its answer is the upstream's.)
C1_SameRecordAlways ==
    (variant = "webhook" /\ InWindow) =>
        \A k \in IdsOf(tracked.product) :
            DetailAnswer(k) # NoProduct =>
                DetailAnswer(k) = DetailAnswer(tracked.product.product_id)

\* C1 (amended): the two lookups both return p, provided no other record has
\* been cached under p.product_id or under a variant id of p since (by a
\* later product of L or by a response handled in between); variants with
\* an empty variant_id are not covered.
C1_SameRecordUndisturbed ==
    (variant = "webhook" /\ InWindow /\ ~tracked.disturbed) =>
        \A k \in KeysOf(tracked.product) : DetailAnswer(k) = tracked.product

\* A followed product with a variant, undisturbed, some time after its
\* fetchProducts and after a later fetchProducts replaced the list.
C1_Witness ==
    /\ variant = "webhook"
    /\ InWindow
    /\ ~tracked.disturbed
    /\ Cardinality(KeysOf(tracked.product)) > 1
    /\ now > tracked.time
    /\ productsListCache.timestamp > tracked.time

DetailCallStep ==
    /\ ev.op = "fetchProductDetail"
    /\ ev.kind = "call" \/ ev.source \in {"cache", "list"}

\* C2: fetchProductDetail(id) answers from productCache exactly when an entry
\* is present and its age is strictly less than 5 minutes; an entry whose age
\* is exactly 5 minutes is treated as absent. The answer is the entry's record.
C2_ExpiryBoundary ==
    DetailCallStep =>
        /\ (ev.source = "cache") <=> (ev.hadEntry /\ now - ev.entryTs < FiveMinutes)
        /\ ev.source = "cache" => ev.product = productCache[ev.arg].product

\* A call that finds an entry aged exactly 5 minutes and does not use it.
C2_Witness ==
    /\ DetailCallStep
    /\ ev.hadEntry
    /\ now - ev.entryTs = FiveMinutes
    /\ ev.source # "cache"

\* C17: in every client variant, less than 5 minutes after a fetchProducts
\* success with list L, fetchProductDetail for the product_id or a variant_id
\* of a product of L is answered without a network request.
C17_NoRequestAfterList ==
    InWindow => \A k \in KeysOf(tracked.product) : DetailSource(k) # "network"

----------------------------------------------------------------------------
(* Claims about the direct/proxy channels (SpecChannel) *)

ProxyFailed ==
    /\ Len(chan.tried) >= 1
    /\ chan.tried[1].chan = "proxy"
    /\ chan.tried[1].out.kind \in {"netErr", "netErrOther", "http"}

\* C9: in dev mode, for each of the eight operations, once the proxy attempt
\* has failed with a network error or a non-success status no error has
\* reached the caller until the direct endpoint has been attempted, and the
\* caller gets the outcome of the direct attempt: its value, or its error.
C9_DirectAfterProxyFailure ==
    (dev /\ ProxyFailed) =>
        IF chan.state = "done"
        THEN /\ Len(chan.tried) = 2
             /\ chan.tried[2].chan = "direct"
             /\ chan.result.chan = "direct"
             /\ chan.result.kind = IF chan.tried[2].good THEN "return" ELSE "throw"
             /\ chan.result.err = chan.tried[2].err
        ELSE /\ chan.state = "direct"
             /\ chan.result = NoResult

\* The proxy answered 500, the direct attempt failed as well, and only then
\* the caller got an error.
C9_Witness ==
    /\ dev
    /\ ProxyFailed
    /\ chan.tried[1].out = Http500
    /\ chan.state = "done"
    /\ chan.result.kind = "throw"
    /\ chan.op = "getCartItems"

\* An attempt of fetchProductDetail got a JSON answer with no product at
\* payload.product, at product or at the top level.
ShapeFailed ==
    /\ chan.op = "fetchProductDetail"
    /\ \E i \in 1..Len(chan.tried) : chan.tried[i].err = "SHAPE"

\* C16: a fetchProductDetail that received a successful response holding no
\* product ends with the error 'Unexpected API response format'.
C16_ShapeErrorSurfaces ==
    (ShapeFailed /\ chan.state = "done") =>
        /\ chan.result.kind = "throw"
        /\ chan.result.err = "SHAPE"

\* The attempt on the direct endpoint that ended the operation with an error.
DirectFailed ==
    /\ chan.state = "done"
    /\ chan.result.kind = "throw"
    /\ Len(chan.tried) >= 1
    /\ chan.tried[Len(chan.tried)].chan = "direct"

\* C15: when the direct attempt fails after the proxy (or without one), the
\* caller gets one error of the kind of that failure: the CORS hint for
\* every network failure, the status error for every non-success response.
C15_ErrorKindMatches ==
    DirectFailed =>
        LET out == chan.tried[Len(chan.tried)].out IN
        /\ out.kind \in {"netErr", "netErrOther"} => chan.result.err = "CORS"
        /\ out.kind = "http" => chan.result.err = "HTTP"

----------------------------------------------------------------------------
(* Claims about the cart page (SpecCart) *)

GuardedInFlight == {r \in requests : r.guarded /\ ~r.settled}

\* C3: at any moment at most one getCartItems request created by the guarded
\* path is in flight for a cart id, for any mounts and any firing of the
\* clearing timers.
C3_OneGuardedRequest == Cardinality(GuardedInFlight) <= 1

C5_EmptyCartClearsCookie ==
    (cartEv.kind = "reply" /\ cartEv.outcome.ok) =>
        /\ (cartEv.outcome.items = 0 /\ cartEv.outcome.lineItems = 0) => cookie = ""
        /\ cartEv.outcome.items > 0 => cookie = cartEv.cookieBefore

\* C6: a cart load (mount, Retry, reload after remove) that starts without a
\* cart_id cookie calls no getCartItems and leaves the empty state: no
\* items, loading false, no error displayed.
C6_AbsentCookieEmptyView ==
    (cartEv.kind \in {"mount", "retry", "remove"} /\ cartEv.absent) =>
        /\ ~cartEv.called
        /\ page.cartItems = 0
        /\ ~page.loading
        /\ ~page.error

----------------------------------------------------------------------------
(* Claims about the Checkout (SpecCheckout, SpecCheckoutFair) *)

InShippingStage ==
    IF checkout.kind = "three" THEN checkout.currentStep = 2
    ELSE checkout.addressSubmitted

\* C7: when the address submission succeeds with a non-empty list, the
\* Checkout on screen is in the Shipping stage, having been in the Address
\* stage, it stores the returned list, and the selected id is the id of the
\* first method flagged is_default, or of the first method when none is.
C7_AddressSuccessAdvances ==
    (coEv.kind = "addressOk" /\ checkout.mounted) =>
        /\ Len(coEv.list) > 0
        /\ InShippingStage
        /\ coEv.stepBefore = 1
        /\ checkout.shippingMethods = coEv.list
        /\ \/ \E i \in 1..Len(coEv.list) :
                  /\ coEv.list[i].is_default
                  /\ \A j \in 1..(i - 1) : ~coEv.list[j].is_default
                  /\ checkout.selectedShippingMethod = coEv.list[i].id
           \/ /\ \A i \in 1..Len(coEv.list) : ~coEv.list[i].is_default
              /\ checkout.selectedShippingMethod = coEv.list[1].id

\* Two methods returned, the second one flagged: it is the selected one.
C7_Witness ==
    /\ coEv.kind = "addressOk"
    /\ checkout.mounted
    /\ coEv.list = <<Method("m1", FALSE), Method("m2", TRUE)>>
    /\ checkout.selectedShippingMethod = "m2"
    /\ InShippingStage

C10_StageChanges ==
    [][(checkout.kind = "three" /\ checkout'.currentStep # checkout.currentStep) =>
          \/ /\ checkout.currentStep = 1 /\ checkout'.currentStep = 2
             /\ coEv'.kind = "addressOk"
          \/ /\ checkout.currentStep = 2 /\ checkout'.currentStep = 3
             /\ coEv'.kind = "confirmation"
          \/ /\ checkout.currentStep = 2 /\ checkout'.currentStep = 1
             /\ coEv'.kind = "back"
          \/ /\ checkout.currentStep = 3 /\ checkout'.currentStep = 2
             /\ coEv'.kind = "back"]_vars

----------------------------------------------------------------------------
(* Claims about failures, the cookie and the requests of the Checkout      *)
(* (SpecCheckout)                                                          *)

FailedKinds == {"addressFailed", "shippingFailed", "paymentFailed"}

\* The steps a user action starts: the submit handlers.
UserKinds == {"submitAddress", "submitShipping", "confirmOrder", "placeOrder"}

\* C11: when an address submission, a shipping-method submission or an order
\* placement rejects or is answered without success, the Checkout on screen
\* keeps its stage, shows a non-empty error message, has loading false again
\* and awaits no request; and a handler that awaits nothing starts a request
\* only in a step of a user action.
C11_FailureKeepsStage ==
    [][/\ (coEv'.kind \in FailedKinds /\ checkout.mounted) =>
              /\ checkout'.currentStep = checkout.currentStep
              /\ checkout'.addressSubmitted = checkout.addressSubmitted
              /\ checkout'.error
              /\ coEv'.message # ""
              /\ ~checkout'.loading
              /\ coReq' = NoReq
       /\ (coReq.op = "none" /\ coReq'.op # "none") => coEv'.kind \in UserKinds]_vars

\* An order placement answered with neither status_code "0" nor a
\* status_message: the three-step Checkout stays at Confirmation with the
\* fallback text as its error.
C11_Witness ==
    /\ checkout.kind = "three" /\ checkout.mounted
    /\ coEv.kind = "paymentFailed"
    /\ coEv.message = "Failed to place order"
    /\ checkout.currentStep = 3
    /\ checkout.error /\ ~checkout.loading

\* C12: in the checkout flow the cart_id cookie changes only by being deleted
\* when processOfflinePayment has succeeded; a successful order placement
\* leaves the cookie absent and navigates to '/', and after a failed or
\* rejected order placement the cookie holds the cart id it held before.
C12_CookieDeletedIffOrderPlaced ==
    [][/\ cookie' # cookie => (coEv'.kind = "orderPlaced" /\ cookie' = "")
       /\ coEv'.kind = "orderPlaced" =>
              (cookie' = "" /\ coEv'.navigated = "/" /\ ~checkout'.mounted)
       /\ coEv'.kind = "paymentFailed" => (cookie' = cookie /\ cookie # "")]_vars

C12_Witness ==
    /\ coEv.kind = "orderPlaced"
    /\ coEv.navigated = "/"
    /\ cookie = ""
    /\ ~checkout.mounted

\* C19: in the three-step Checkout the step that ends a shipping-method
\* submission enters the Confirmation stage only with the snapshot of a
\* successful getCheckoutData made after that submission.
C19_ConfirmationHasSnapshot ==
    [][(/\ checkout.kind = "three" /\ checkout.mounted
        /\ coEv'.kind = "confirmation"
        /\ checkout'.currentStep = 3) =>
           (~checkout'.error /\ checkout'.confirmationData = "fresh")]_vars

\* C20: whenever submitShippingMethod is awaited, its argument is not empty
\* and is the id of a method of the list the most recent successful address
\* submission returned.
C20_SubmittedMethodIsListed ==
    coReq.op = "submitShippingMethod" =>
        /\ coReq.selected # ""
        /\ coEv.answered
        /\ \E i \in 1..Len(coEv.lastList) : coEv.lastList[i].id = coReq.selected

\* The user chose another method than the preselected one and submitted it.
C20_Witness ==
    /\ coReq.op = "submitShippingMethod"
    /\ coEv.answered
    /\ Len(coEv.lastList) = 2
    /\ coReq.selected # DefaultMethod(coEv.lastList).id

----------------------------------------------------------------------------
(* Claims about the cart identity under overlapping calls (SpecIdentity)   *)

\* C13: a successful addToCart whose response carries a cart identity leaves
\* that identity in the cookie, also when the cookie was changed or deleted
\* by another call while the request was in flight.
C13_AddToCartStoresIdentity ==
    [][(ident'.ev.kind = "addOk" /\ ident'.ev.carried # "") =>
           cookie' = ident'.ev.carried]_vars

\* C14: a successful getCartItems whose response carries a cart identity
\* other than the stored one leaves that identity in the cookie.
C14_CartReadStoresIdentity ==
    [][(/\ ident'.ev.kind = "readOk"
        /\ ident'.ev.carried # ""
        /\ ident'.ev.carried # cookie) =>
           cookie' = ident'.ev.carried]_vars

----------------------------------------------------------------------------
(* Claims about the HomePage guard (SpecHome)                              *)

\* C18: at most one fetchProducts call of the HomePage is in flight at any
\* moment, whatever the mounts, unmounts and reset timers.
C18_OneProductsRequest == Cardinality(home.pending) <= 1

----------------------------------------------------------------------------
(* Claims about the address form (SpecAddress)                             *)

\* C21: whenever sameBillingAddress is on, the billing address equals the
\* shipping address in every field, and the checkoutData of a submission
\* made then holds two equal addresses.
C21_BillingFollowsShipping ==
    form.sameBillingAddress =>
        /\ form.billingAddress = form.shippingAddress
        /\ form.posted.sent =>
               form.posted.billing_address = form.posted.shipping_address

\* An address submission made with the box checked, after the loads of the
\* address details were answered and the shipping fields were edited.
C21_Witness ==
    /\ form.sameBillingAddress
    /\ form.posted.sent
    /\ form.shippingAddress.country = "B"
    /\ form.shippingAddress.first_name = "x"
    /\ form.loads = 0

----------------------------------------------------------------------------
(* Claims about the pages and their late responses (SpecPages)             *)

\* The requests of the CartPage and of the HomePage that are answered in
\* this step.
CartAnswered == {r \in requests : ~r.settled /\ r \notin requests'}
HomeAnswered == home.pending \ home'.pending

----------------------------------------------------------------------------
(* Claims about the proxy handlers (SpecProxy)                             *)

\* C23: every response of a proxy handler carries
\* Access-Control-Allow-Origin: * (the preflight answer, the mirrored
\* upstream response, the configuration error and the error answer).
C23_EveryAnswerAllowsOrigin ==
    proxy.answer.sent => proxy.answer.allowOrigin

\* C24: every request a proxy handler forwards to the webhook carries the
\* auth key in its 'key' header.
C24_EveryForwardCarriesKey ==
    proxy.forward.sent => proxy.forward.key

----------------------------------------------------------------------------
(* Claims about the cookie store (SpecJar)                                 *)

\* C25: getCartId returns exactly the cart id of the most recent setCartId
\* when no deleteCartId followed it, and null otherwise, whatever the cart
\* id string and whatever other cookies are stored.
C25_CookieRoundTrip ==
    getCartId = IF jar.last.kind = "set" THEN Some(jar.last.cartId) ELSE Null

----------------------------------------------------------------------------
(* Claims about the in-flight guards and their timers (SpecGuardsFair)     *)

\* The guard holds the promise of a request that has settled. An entry is
\* only ever placed in an empty guard (part_001 188-192, HomePage.tsx
\* 27-29), so a settled entry stops being one by being removed.
CartSettledEntry ==
    /\ cartPromises["c1"] # 0
    /\ \E r \in requests : r.id = cartPromises["c1"] /\ r.settled

HomeSettledEntry ==
    /\ home.productsPromise # 0
    /\ ~HomePending(home.productsPromise)

\* C26: an entry of cartPromises or of productsPromise whose request has
\* settled is eventually removed from the guard; no settled entry stays.
C26_SettledEntryRemoved ==
    /\ CartSettledEntry ~> ~CartSettledEntry
    /\ HomeSettledEntry ~> ~HomeSettledEntry

\* The entry of a fulfilled cart request was removed by its timer after a
\* second load had joined it.
C26_Witness ==
    /\ cartEv.kind = "timer"
    /\ cartPromises["c1"] = 0
    /\ cartCount.lastSettled >= 0
    /\ timers # <<>>

----------------------------------------------------------------------------
(* Claims about the operations a user action issues (SpecCheckout)         *)

\* C27: a user action issues at most one upstream operation: an operation
\* is started only by a handler that finds none pending, and the answer to
\* one operation never starts a different one.
C27_OneOperationPerAction ==
    [][(coReq.op # "none" /\ coReq'.op # "none") => coReq'.op = coReq.op]_vars

----------------------------------------------------------------------------
(* Claims about the age of the records served (SpecCache)                  *)

----------------------------------------------------------------------------
(* Claims about addToCart on the two channels (SpecChannel)                *)

\* C29: when the proxy attempt of addToCart was answered with a success
\* status, no add-to-cart POST goes to the direct endpoint, whatever
\* happens while the body of the proxy response is read.
C29_NoSecondAddAfterProxySuccess ==
    (/\ chan.op = "addToCart"
     /\ Len(chan.tried) >= 1
     /\ chan.tried[1].chan = "proxy"
     /\ chan.tried[1].out.status = 200) =>
        /\ chan.state # "direct"
        /\ Len(chan.tried) = 1

----------------------------------------------------------------------------
(* Claims about submissions in flight (SpecVisits)                         *)

Submissions == {"submitCheckoutAddress", "submitShippingMethod",
                "processOfflinePayment"}

\* C30: while one checkout submission is in flight no second one is
\* started: at most one submission request is in flight at any moment.
C30_OneSubmissionInFlight ==
    /\ Cardinality({q \in orphan.reqs : q.op \in Submissions}) <= 1
    /\ coReq.op \in Submissions => \A q \in orphan.reqs : q.op \notin Submissions

----------------------------------------------------------------------------
(* Claims about the order of the checkout requests (SpecCheckout)          *)

\* C31: processOfflinePayment is in flight only after a submitCheckoutAddress
\* of this page session returned success, in the three-step Checkout only
\* after a submitShippingMethod returned success as well, and it is invoked
\* with the payment mode 'cash_on_delivery'.
C31_PaymentAfterSubmissions ==
    /\ coReq.op = "processOfflinePayment" =>
           /\ coEv.answered
           /\ checkout.kind = "three" => coEv.shipped
    /\ coEv.invoked => coEv.mode = "cash_on_delivery"

\* processOfflinePayment in flight in the three-step Checkout, and in the
\* single-form Checkout right after an address answer without methods.
C31_Witness ==
    /\ coReq.op = "processOfflinePayment"
    /\ coEv.invoked
    /\ checkout.kind = "three" \/ coEv.kind = "addressEmpty"

\* C32: when processOfflinePayment is invoked by the Checkout on screen, the
\* addresses most recently accepted by the upstream are the ones the form
\* holds, and the shipping method most recently accepted is the selected one.
C32_OrderMatchesForm ==
    (coEv.invoked /\ checkout.mounted) =>
        /\ coEv.acceptedAddress = checkout.address
        /\ Len(checkout.shippingMethods) > 0 =>
               coEv.acceptedMethod = checkout.selectedShippingMethod

\* C33: no checkout operation is invoked while the cart_id cookie is
\* absent, and a submission attempted without a cart id sends nothing,
\* leaves the stage unchanged and sets the error.
InvokedWithoutCart ==
    /\ coReq'.op # "none" /\ coReq'.op # coReq.op
    /\ cookie = ""

SubmissionWithoutCart ==
    /\ cookie = "" /\ checkout.mounted
    /\ coEv' # coEv
    /\ coEv'.kind \in {"submitAddress", "submitShipping", "confirmOrder", "placeOrder"}

SendsNothing ==
    /\ coReq' = coReq
    /\ checkout'.currentStep = checkout.currentStep
    /\ checkout'.error

C33_NothingWithoutCart ==
    [][~InvokedWithoutCart /\ (SubmissionWithoutCart => SendsNothing)]_vars

----------------------------------------------------------------------------
(* Claims about the ProductDetailModal (SpecModal)                         *)

\* C34: once every fetchProductDetail request has settled, the product the
\* modal shows, whose first variant Add to Cart sends, is the one fetched
\* for the selected variant id.
C34_ShownProductIsSelected ==
    (Visible /\ modal.loads = {}) => modal.product.variant_id = modal.variantId

\* C35: the quantity passed to addToCart is at least 1 and, when the first
\* variant of the displayed product has a positive stock_available, at most
\* that stock.
C35_QuantityWithinStock ==
    modal.sent.called =>
        /\ modal.sent.quantity >= 1
        /\ modal.sent.stock > 0 => modal.sent.quantity <= modal.sent.stock

====
